---- MODULE Spec2Model ----
(***************************************************************************)
(* Channel permission validation and periodic reconciliation of the       *)
(* telegive channel service: the ChannelConfig store, the validation      *)
(* history, the Validator (utils/validation.py), the sweep driver         *)
(* (services/channel_validator.py, tasks/periodic_validation.py) and the  *)
(* configuration endpoints that write the same rows (routes/).            *)
(*                                                                         *)
(* Time is counted in whole hours: two readings of datetime.utcnow()      *)
(* within the same hour are equal.  None / NULL is NullTime for a         *)
(* timestamp and the empty sequence for a text.  A text is the sequence   *)
(* of its parts, so that a formatted message keeps the names it lists.    *)
(***************************************************************************)
EXTENDS Integers, Sequences, FiniteSets, TLC

\* ------------------------------------------------------------- bounds
MaxTime == 2
MaxHistory == 2
MaxConfigId == 2

\* The accounts of the whole-system specification and of the sweep specification.
Accounts == {1}
SweepAccounts == {1, 2}

\* ---------------------------------------------------------- constants
NullTime == -1
NoText == << >>

PermissionNames ==
    {"can_post_messages", "can_edit_messages", "can_send_media_messages",
     "can_delete_messages", "can_pin_messages"}

REQUIRED_PERMISSIONS == <<"can_post_messages", "can_edit_messages">>

\* max_age_hours passed by run_periodic_validation
MaxAgeHours == 1

Range(s) == {s[i] : i \in 1..Len(s)}

\* Column defaults of the five permission flags.
DefaultPermissions == [p \in PermissionNames |-> FALSE]

\* dict.get(perm, False) over the flags a JSON body carries as true.
FlagsToPermissions(flags) == [p \in PermissionNames |-> p \in flags]

\* ------------------------------------------------- the gateway (member)
\* What requests.get / response.json() did: the kinds of outcome.
NoMemberInfo == [status |-> "", permissions |-> DefaultPermissions]

\* The exception the try block of a Gateway operation ends with for what
\* the remote side answers, "" when the block returns: the request times out
\* or fails, the body is no JSON, is no object or has ok without a result,
\* or the channel username is absent.
TryBlock(kind) ==
    CASE kind = "Timeout" -> "Timeout"
      [] kind = "RequestException" -> "ConnectionError"
      [] kind = "Unparseable" -> "ValueError"
      [] kind = "NoResult" -> "KeyError"
      [] kind \in {"NotAnObject", "NoUsername"} -> "AttributeError"
      [] OTHER -> ""

RequestExceptions == {"Timeout", "ConnectionError"}
Exceptions == RequestExceptions \cup {"ValueError", "KeyError", "AttributeError"}

\* As ExceptClause, without the last clause.
ExceptClause_RequestsOnly(exception) ==
    IF exception = "Timeout" THEN "Timeout"
    ELSE IF exception \in RequestExceptions THEN "RequestException"
    ELSE "none"

\* The except clause that takes the exception: requests.Timeout,
\* requests.RequestException, Exception, in this order.
ExceptClause(exception) ==
    IF exception = "Timeout" THEN "Timeout"
    ELSE IF exception \in RequestExceptions THEN "RequestException"
    ELSE IF exception \in Exceptions THEN "Exception"
    ELSE "none"

\* The exception leaves the operation.
Escapes(kind) == TryBlock(kind) # "" /\ ExceptClause(TryBlock(kind)) = "none"

get_bot_member_info(raw) ==
    LET clause == ExceptClause(TryBlock(raw.kind))
        failed(error) == [success |-> FALSE, error |-> error, member_info |-> NoMemberInfo]
    IN  CASE clause = "Timeout" -> failed(<<"Telegram API request timeout">>)
          [] clause = "RequestException" -> failed(<<"Network error: ", "connection failed">>)
          [] clause = "Exception" -> failed(<<"Unexpected error: ", TryBlock(raw.kind)>>)
          [] raw.kind = "HttpError" -> failed(<<"HTTP ", "status", ": Unable to get member info">>)
          [] raw.kind = "NotOk" -> failed(<<"Bad Request: user not found">>)
          [] raw.kind = "NoDescription" -> failed(<<"Unknown Telegram API error">>)
          [] Escapes(raw.kind) -> failed(NoText)
          [] OTHER ->
               [success |-> TRUE, error |-> NoText,
                member_info |-> [status |-> raw.status,
                                 permissions |-> FlagsToPermissions(raw.flags)]]

Raw(kind, status, flags) == [kind |-> kind, status |-> status, flags |-> flags]

GatewayFailureKinds ==
    {"Timeout", "RequestException", "HttpError", "NotOk", "Unparseable",
     "NoDescription", "NoResult", "NotAnObject"}
MemberStatuses == {"administrator", "member", "creator", "left"}

\* Every outcome of the member lookup.
AllMemberOutcomes ==
    {Raw(k, "", {}) : k \in GatewayFailureKinds}
      \cup {Raw("Ok", s, f) : s \in MemberStatuses, f \in SUBSET PermissionNames}

\* The outcomes the whole-system specification draws from.
SystemMemberOutcomes ==
    { Raw("Timeout", "", {}),
      Raw("Ok", "administrator", {"can_post_messages", "can_edit_messages"}),
      Raw("Ok", "administrator", {"can_post_messages"}) }

\* --------------------------------------------------- history records
NoSnapshot == [keys |-> "none", status |-> "", permissions |-> DefaultPermissions]
PermissionsSnapshot(perms) == [keys |-> "permissions", status |-> "", permissions |-> perms]
MemberInfoSnapshot(info) ==
    [keys |-> "member_info", status |-> info.status, permissions |-> info.permissions]

create_validation_record(channel_config_id, validation_type, result, error_message, permissions) ==
    [channel_config_id |-> channel_config_id,
     validation_type |-> validation_type,
     validation_result |-> result,
     error_message |-> error_message,
     permissions_snapshot |-> permissions]

\* The row as inserted: validated_at takes its default, utcnow() at the insert.
Inserted(record, t) ==
    [channel_config_id |-> record.channel_config_id,
     validation_type |-> record.validation_type,
     validation_result |-> record.validation_result,
     error_message |-> record.error_message,
     permissions_snapshot |-> record.permissions_snapshot,
     validated_at |-> t]

\* ------------------------------------------------------ the Validator
\* The required permissions that current_permissions does not grant, in the
\* order of Config.REQUIRED_PERMISSIONS.
RECURSIVE MissingFrom(_, _)
MissingFrom(required, perms) ==
    IF required = << >> THEN << >>
    ELSE IF ~perms[Head(required)]
         THEN <<Head(required)>> \o MissingFrom(Tail(required), perms)
         ELSE MissingFrom(Tail(required), perms)

\* As MissingRequired, stopping at the first permission found missing.
MissingRequired_First(perms) ==
    LET all == MissingFrom(REQUIRED_PERMISSIONS, perms)
    IN  IF all = << >> THEN << >> ELSE <<Head(all)>>

MissingRequired(perms) == MissingFrom(REQUIRED_PERMISSIONS, perms)

MissingMessage(missing) == <<"Missing required permissions: ">> \o missing

NoLongerAdministrator == <<"Bot is no longer an administrator in the channel">>

\* The unit of work one attempt hands to db.session.commit(): the record
\* added, the attributes assigned on channel_config, and the value returned.
\* `loaded` is the channel_config object the caller queried (its id and its
\* permission attributes), t the reading of utcnow().

\* As GatewayFailureUnit, without the assignment of validation_error.
GatewayFailureUnit_NoError(loaded, member_result, t) ==
    [record |-> create_validation_record(loaded.id, "permission_check", FALSE,
                                         member_result.error, NoSnapshot),
     set_permissions |-> FALSE,
     permissions |-> loaded.permissions,
     is_validated |-> FALSE,
     last_validation_at |-> t,
     validation_error |-> NoText,
     result |-> [valid |-> FALSE, error |-> member_result.error,
                 permissions_changed |-> FALSE, missing_permissions |-> << >>]]

\* As GatewayFailureUnit, storing the empty permissions of the failed lookup.
GatewayFailureUnit_Erasing(loaded, member_result, t) ==
    [record |-> create_validation_record(loaded.id, "permission_check", FALSE,
                                         member_result.error, NoSnapshot),
     set_permissions |-> TRUE,
     permissions |-> member_result.member_info.permissions,
     is_validated |-> FALSE,
     last_validation_at |-> t,
     validation_error |-> member_result.error,
     result |-> [valid |-> FALSE, error |-> member_result.error,
                 permissions_changed |-> FALSE, missing_permissions |-> << >>]]

\* The member lookup failed.
GatewayFailureUnit(loaded, member_result, t) ==
    [record |-> create_validation_record(loaded.id, "permission_check", FALSE,
                                         member_result.error, NoSnapshot),
     set_permissions |-> FALSE,
     permissions |-> loaded.permissions,
     is_validated |-> FALSE,
     last_validation_at |-> t,
     validation_error |-> member_result.error,
     result |-> [valid |-> FALSE, error |-> member_result.error,
                 permissions_changed |-> FALSE, missing_permissions |-> << >>]]

\* The bot is an administrator: its permissions are compared and checked.
AdministratorUnit(loaded, member_result, t) ==
    LET current_permissions == member_result.member_info.permissions
        permissions_changed == current_permissions # loaded.permissions
        missing_permissions == MissingRequired(current_permissions)
        validation_successful == Len(missing_permissions) = 0
        validation_error == IF validation_successful THEN NoText
                            ELSE MissingMessage(missing_permissions)
    IN  [record |-> create_validation_record(loaded.id, "permission_check",
                                             validation_successful, validation_error,
                                             PermissionsSnapshot(current_permissions)),
         set_permissions |-> permissions_changed,
         permissions |-> current_permissions,
         is_validated |-> validation_successful,
         last_validation_at |-> t,
         validation_error |-> validation_error,
         result |-> [valid |-> validation_successful, error |-> NoText,
                     permissions_changed |-> permissions_changed,
                     missing_permissions |-> missing_permissions]]

\* As NotAdministratorUnit, storing the permissions the answer carried.
NotAdministratorUnit_Storing(loaded, member_result, t) ==
    [record |-> create_validation_record(loaded.id, "permission_check", FALSE,
                                         NoLongerAdministrator,
                                         MemberInfoSnapshot(member_result.member_info)),
     set_permissions |-> TRUE,
     permissions |-> member_result.member_info.permissions,
     is_validated |-> FALSE,
     last_validation_at |-> t,
     validation_error |-> NoLongerAdministrator,
     result |-> [valid |-> FALSE, error |-> NoLongerAdministrator,
                 permissions_changed |-> FALSE, missing_permissions |-> << >>]]

\* As NotAdministratorUnit, without the check of the status.
NotAdministratorUnit_Unchecked(loaded, member_result, t) ==
    AdministratorUnit(loaded, member_result, t)

\* The bot's status is not 'administrator'.
NotAdministratorUnit(loaded, member_result, t) ==
    [record |-> create_validation_record(loaded.id, "permission_check", FALSE,
                                         NoLongerAdministrator,
                                         MemberInfoSnapshot(member_result.member_info)),
     set_permissions |-> FALSE,
     permissions |-> loaded.permissions,
     is_validated |-> FALSE,
     last_validation_at |-> t,
     validation_error |-> NoLongerAdministrator,
     result |-> [valid |-> FALSE, error |-> NoLongerAdministrator,
                 permissions_changed |-> FALSE, missing_permissions |-> << >>]]

ValidationUnit(loaded, member_result, t) ==
    IF ~member_result.success THEN GatewayFailureUnit(loaded, member_result, t)
    ELSE IF member_result.member_info.status # "administrator"
         THEN NotAdministratorUnit(loaded, member_result, t)
         ELSE AdministratorUnit(loaded, member_result, t)

ValidationErrorText == <<"Validation error: ", "commit failed">>

\* The unit of work of the except branch: a failure record and a failed status.
FallbackUnit(loaded, t) ==
    [record |-> create_validation_record(loaded.id, "permission_check", FALSE,
                                         ValidationErrorText, NoSnapshot),
     set_permissions |-> FALSE,
     permissions |-> loaded.permissions,
     is_validated |-> FALSE,
     last_validation_at |-> t,
     validation_error |-> ValidationErrorText,
     result |-> [valid |-> FALSE, error |-> ValidationErrorText,
                 permissions_changed |-> FALSE, missing_permissions |-> << >>]]

\* ------------------------------------------------------------ the store
VARIABLES
    now,        \* datetime.utcnow(), in hours
    configs,    \* channel_configs: account_id -> row (at most one row per account)
    nextId,     \* the autoincrement of channel_configs.id
    history,    \* channel_validation_history, in insertion order
    loop,       \* the thread running validate_multiple_channels
    req,        \* a request thread running validate_channel_permissions
    sched,      \* the PeriodicValidationTask and its BackgroundScheduler
    call        \* a call of a function that touches no table: what it got and gave

vars == <<now, configs, nextId, history, loop, req, sched, call>>

\* A ChannelConfig row: the columns the reconciliation reads and writes, and
\* the descriptive columns a revalidation refreshes.
NewConfig(id) ==
    [id |-> id,
     channel_title |-> <<"title">>,
     channel_member_count |-> 0,
     can_post_messages |-> FALSE,
     can_edit_messages |-> FALSE,
     can_send_media_messages |-> FALSE,
     can_delete_messages |-> FALSE,
     can_pin_messages |-> FALSE,
     is_validated |-> FALSE,
     last_validation_at |-> NullTime,
     validation_error |-> NoText]

get_permissions_dict(row) == [p \in PermissionNames |-> row[p]]

\* setattr for every key of the dictionary that is an attribute of the row.
update_permissions(row, permissions_dict) ==
    [k \in DOMAIN row |->
        IF k \in DOMAIN permissions_dict THEN permissions_dict[k] ELSE row[k]]

\* The ChannelConfig object a query returned: the attributes the Validator reads.
Load(cfgs, a) ==
    [account_id |-> a, id |-> cfgs[a].id, permissions |-> get_permissions_dict(cfgs[a])]

NoObject == [account_id |-> 0, id |-> 0, permissions |-> DefaultPermissions]
NoResult == [valid |-> FALSE, error |-> NoText, permissions_changed |-> FALSE,
             missing_permissions |-> << >>]

RowPresent(cfgs, loaded) ==
    loaded.account_id \in DOMAIN cfgs /\ cfgs[loaded.account_id].id = loaded.id

\* db.session.commit() of a unit of work of the Validator: the assigned
\* attributes reach the row, the added record reaches the history.
CommitUnit(cfgs, loaded, unit) ==
    LET row == cfgs[loaded.account_id]
        withPermissions == IF unit.set_permissions
                           THEN update_permissions(row, unit.permissions)
                           ELSE row
    IN  [cfgs EXCEPT ![loaded.account_id] =
            [withPermissions EXCEPT !.is_validated = unit.is_validated,
                                    !.last_validation_at = unit.last_validation_at,
                                    !.validation_error = unit.validation_error]]

\* As validate_channel_permissions, the record of the try block staying in the
\* session when the except block commits.
validate_channel_permissions_KeepingRecord(cfgs, hist, loaded, raw, t, commitOk, fallbackOk) ==
    LET unit == ValidationUnit(loaded, get_bot_member_info(raw), t)
        fallback == FallbackUnit(loaded, t)
    IN  IF commitOk /\ RowPresent(cfgs, loaded) THEN
            [configs |-> CommitUnit(cfgs, loaded, unit),
             history |-> Append(hist, Inserted(unit.record, t)),
             result |-> unit.result,
             committed |-> "unit"]
        ELSE IF fallbackOk /\ RowPresent(cfgs, loaded) THEN
            [configs |-> CommitUnit(cfgs, loaded, fallback),
             history |-> Append(Append(hist, Inserted(unit.record, t)),
                                Inserted(fallback.record, t)),
             result |-> fallback.result,
             committed |-> "fallback"]
        ELSE
            [configs |-> cfgs, history |-> hist, result |-> fallback.result,
             committed |-> "none"]

\* One call of validate_channel_permissions from the answer of the member
\* lookup on: the store afterwards and the value returned.  commitOk says
\* whether the commit of the try block went through, fallbackOk whether
\* the commit of the except block did; a commit on a row that is gone fails.
\* A failed commit leaves nothing of its unit of work in the store.
validate_channel_permissions(cfgs, hist, loaded, raw, t, commitOk, fallbackOk) ==
    LET unit == ValidationUnit(loaded, get_bot_member_info(raw), t)
        fallback == FallbackUnit(loaded, t)
    IN  IF commitOk /\ RowPresent(cfgs, loaded) THEN
            [configs |-> CommitUnit(cfgs, loaded, unit),
             history |-> Append(hist, Inserted(unit.record, t)),
             result |-> unit.result,
             committed |-> "unit"]
        ELSE IF fallbackOk /\ RowPresent(cfgs, loaded) THEN
            [configs |-> CommitUnit(cfgs, loaded, fallback),
             history |-> Append(hist, Inserted(fallback.record, t)),
             result |-> fallback.result,
             committed |-> "fallback"]
        ELSE
            [configs |-> cfgs, history |-> hist, result |-> fallback.result,
             committed |-> "none"]

\* validate_single_channel passes the result on; the Validator raises nothing.
validate_single_channel(cfgs, hist, loaded, raw, t, commitOk, fallbackOk) ==
    validate_channel_permissions(cfgs, hist, loaded, raw, t, commitOk, fallbackOk)

\* --------------------------------------------------------------- Init
NoRaw == Raw("", "", {})

\* account_id is the argument of run_immediate_validation (0 for None),
\* credentials how get_credentials_func answered for the current channel.
IdleLoop ==
    [pc |-> "idle", mode |-> "", account_id |-> 0, channels |-> << >>, idx |-> 0,
     credentials |-> "", results |-> << >>]

\* raw is the answer of the member lookup of the attempt, committed the commit
\* of it that went through ("unit", "fallback" or "none").
NoResponse == [status |-> 0, success |-> FALSE, valid |-> FALSE, permissions_changed |-> FALSE]

\* response is what the setup or the revalidation endpoint answers, channel
\* how the channel fetch of a setup ended.
IdleReq ==
    [pc |-> "idle", loaded |-> NoObject, raw |-> NoRaw, committed |-> "",
     result |-> NoResult, response |-> NoResponse, channel |-> "",
     stamped_at |-> NullTime]

\* No call made yet.
NoCall == [op |-> "", input |-> << >>, raised |-> FALSE, output |-> << >>]

\* ------------------------------------------------- utils/permissions.py
\* A permissions dict as a caller passes it: any of the five names, each
\* with a boolean.
PermissionDicts == UNION {[names -> BOOLEAN] : names \in SUBSET PermissionNames}

\* permissions.get(perm, False)
Get(permissions, perm) ==
    IF perm \in DOMAIN permissions THEN permissions[perm] ELSE FALSE

\* As check_required_permissions, one required permission being enough.
check_required_permissions_AnyRequired(permissions) ==
    LET missing_permissions ==
            SelectSeq(REQUIRED_PERMISSIONS, LAMBDA p : ~Get(permissions, p))
    IN  [has_required_permissions |-> Len(missing_permissions) < Len(REQUIRED_PERMISSIONS),
         missing_permissions |-> missing_permissions,
         all_permissions |-> permissions]

check_required_permissions(permissions) ==
    LET missing_permissions ==
            SelectSeq(REQUIRED_PERMISSIONS, LAMBDA p : ~Get(permissions, p))
    IN  [has_required_permissions |-> Len(missing_permissions) = 0,
         missing_permissions |-> missing_permissions,
         all_permissions |-> permissions]

\* What compare_permissions returns for the permissions that changed, were
\* gained and were lost; its lists come in the order of a set, and are sets here.
Comparison(old_permissions, new_permissions, changed, gained, lost, lost_required) ==
    [has_changes |-> changed # {},
     changes |-> [p \in changed |-> [old |-> Get(old_permissions, p),
                                     new |-> Get(new_permissions, p)]],
     gained_permissions |-> gained,
     lost_permissions |-> lost,
     lost_required_permissions |-> lost_required,
     critical_loss |-> lost_required # {}]

\* As compare_permissions, every lost permission counted as a required one.
compare_permissions_AllLostRequired(old_permissions, new_permissions) ==
    LET all_permissions == DOMAIN old_permissions \cup DOMAIN new_permissions
        changed == {p \in all_permissions :
                       Get(old_permissions, p) # Get(new_permissions, p)}
        gained == {p \in changed : Get(new_permissions, p) /\ ~Get(old_permissions, p)}
        lost == {p \in changed : Get(old_permissions, p) /\ ~Get(new_permissions, p)}
    IN  Comparison(old_permissions, new_permissions, changed, gained, lost, lost)

\* As compare_permissions, gained and lost taken the wrong way round.
compare_permissions_Swapped(old_permissions, new_permissions) ==
    LET all_permissions == DOMAIN old_permissions \cup DOMAIN new_permissions
        changed == {p \in all_permissions :
                       Get(old_permissions, p) # Get(new_permissions, p)}
        gained == {p \in changed : Get(old_permissions, p) /\ ~Get(new_permissions, p)}
        lost == {p \in changed : Get(new_permissions, p) /\ ~Get(old_permissions, p)}
    IN  Comparison(old_permissions, new_permissions, changed, gained, lost,
                   {p \in lost : p \in Range(REQUIRED_PERMISSIONS)})

\* As compare_permissions, a permission true on both sides counted as changed.
compare_permissions_TrueIsChange(old_permissions, new_permissions) ==
    LET all_permissions == DOMAIN old_permissions \cup DOMAIN new_permissions
        changed == {p \in all_permissions :
                       Get(old_permissions, p) # Get(new_permissions, p)
                          \/ Get(new_permissions, p)}
        gained == {p \in changed : Get(new_permissions, p) /\ ~Get(old_permissions, p)}
        lost == {p \in changed : Get(old_permissions, p) /\ ~Get(new_permissions, p)}
    IN  Comparison(old_permissions, new_permissions, changed, gained, lost,
                   {p \in lost : p \in Range(REQUIRED_PERMISSIONS)})

compare_permissions(old_permissions, new_permissions) ==
    LET all_permissions == DOMAIN old_permissions \cup DOMAIN new_permissions
        changed == {p \in all_permissions :
                       Get(old_permissions, p) # Get(new_permissions, p)}
        gained == {p \in changed : Get(new_permissions, p) /\ ~Get(old_permissions, p)}
        lost == {p \in changed : Get(old_permissions, p) /\ ~Get(new_permissions, p)}
    IN  Comparison(old_permissions, new_permissions, changed, gained, lost,
                   {p \in lost : p \in Range(REQUIRED_PERMISSIONS)})

CriticalLoss(lost_required) == <<"Critical permissions lost: ", lost_required>>

\* What validate_permission_update returns, and the ChannelConfig it was
\* given as the call leaves it; an absent error or warning is the empty text.
UpdateValidation(channel_config, is_valid, comparison, requirement_check, warned) ==
    [valid |-> is_valid,
     comparison |-> comparison,
     requirement_check |-> requirement_check,
     error |-> IF ~is_valid THEN MissingMessage(requirement_check.missing_permissions)
               ELSE NoText,
     warning |-> IF warned THEN CriticalLoss(comparison.lost_required_permissions)
                 ELSE NoText,
     channel_config |-> channel_config]

\* As validate_permission_update, the stored permissions checked in place of
\* the new ones.
validate_permission_update_Stored(channel_config, new_permissions) ==
    LET current_permissions == get_permissions_dict(channel_config)
        comparison == compare_permissions(current_permissions, new_permissions)
        requirement_check == check_required_permissions(current_permissions)
    IN  UpdateValidation(channel_config, requirement_check.has_required_permissions,
                         comparison, requirement_check, comparison.critical_loss)

\* As validate_permission_update, the warning given for any lost permission.
validate_permission_update_WarnsOnAnyLoss(channel_config, new_permissions) ==
    LET current_permissions == get_permissions_dict(channel_config)
        comparison == compare_permissions(current_permissions, new_permissions)
        requirement_check == check_required_permissions(new_permissions)
        is_valid == requirement_check.has_required_permissions
    IN  UpdateValidation(channel_config, is_valid, comparison, requirement_check,
                         comparison.lost_permissions # {})

validate_permission_update(channel_config, new_permissions) ==
    LET current_permissions == get_permissions_dict(channel_config)
        comparison == compare_permissions(current_permissions, new_permissions)
        requirement_check == check_required_permissions(new_permissions)
        is_valid == requirement_check.has_required_permissions
    IN  UpdateValidation(channel_config, is_valid, comparison, requirement_check,
                         comparison.critical_loss)

CallCheckRequiredPermissions(permissions) ==
    /\ call.op = ""
    /\ call' = [op |-> "check_required_permissions", input |-> permissions,
                raised |-> FALSE, output |-> check_required_permissions(permissions)]
    /\ UNCHANGED <<now, configs, nextId, history, loop, req, sched>>

CallComparePermissions(old_permissions, new_permissions) ==
    /\ call.op = ""
    /\ call' = [op |-> "compare_permissions",
                input |-> [old |-> old_permissions, new |-> new_permissions],
                raised |-> FALSE,
                output |-> compare_permissions(old_permissions, new_permissions)]
    /\ UNCHANGED <<now, configs, nextId, history, loop, req, sched>>

\* PermissionCheckerService.validate_permission_changes on a ChannelConfig
\* that holds the given permissions.
CallValidatePermissionUpdate(flags, new_permissions) ==
    /\ call.op = ""
    /\ LET channel_config == update_permissions(NewConfig(1), FlagsToPermissions(flags))
       IN  call' = [op |-> "validate_permission_update",
                    input |-> [channel_config |-> channel_config, new |-> new_permissions],
                    raised |-> FALSE,
                    output |-> validate_permission_update(channel_config, new_permissions)]
    /\ UNCHANGED <<now, configs, nextId, history, loop, req, sched>>

\* The caller has its answer.
CallReturn ==
    /\ call.op # ""
    /\ call' = NoCall
    /\ UNCHANGED <<now, configs, nextId, history, loop, req, sched>>

\* ------------------------------------------------------- the scheduler
PERIODIC_VALIDATION_INTERVAL == 3600

\* As PeriodicJob, two instances of it allowed to run at a time.
PeriodicJob_TwoInstances == [id |-> "periodic_channel_validation", max_instances |-> 2]

\* The jobs start_scheduler registers.
PeriodicJob == [id |-> "periodic_channel_validation", max_instances |-> 1]
CleanupJob == [id |-> "validation_history_cleanup", max_instances |-> 1]

NoCleanupResult == [success |-> FALSE, deleted_records |-> 0, ran |-> FALSE]

\* PeriodicValidationTask.__init__: nothing registered, nothing running.
\* instances counts the running instances of the periodic job, skipped says
\* that a run of it was refused for max_instances while they ran,
\* cleanup_result is what the last run of the cleanup job got back.
NewScheduler ==
    [is_running |-> FALSE,
     jobs |-> << >>,
     validation_interval |-> PERIODIC_VALIDATION_INTERVAL,
     instances |-> 0,
     skipped |-> FALSE,
     cleanup_result |-> NoCleanupResult]

\* As add_job, a job added beside the one registered under its id.
add_job_Duplicating(jobs, job) == Append(jobs, job.id)

\* scheduler.add_job(..., id=job.id, replace_existing=True)
add_job(jobs, job) ==
    IF job.id \in Range(jobs) THEN jobs ELSE Append(jobs, job.id)

\* scheduler.remove_job(id)
remove_job(jobs, id) == SelectSeq(jobs, LAMBDA j : j # id)

start_scheduler(s) ==
    IF ~s.is_running
    THEN [s EXCEPT !.jobs = add_job(add_job(@, PeriodicJob), CleanupJob),
                   !.is_running = TRUE]
    ELSE s

\* scheduler.shutdown(wait=False): the timer stops, the running jobs go on.
stop_scheduler(s) ==
    IF s.is_running THEN [s EXCEPT !.is_running = FALSE] ELSE s

update_validation_interval(s, new_interval) ==
    IF s.is_running
    THEN [s EXCEPT !.validation_interval = new_interval,
                   !.jobs = add_job(remove_job(@, PeriodicJob.id), PeriodicJob)]
    ELSE [s EXCEPT !.validation_interval = new_interval]

StartScheduler ==
    /\ sched' = start_scheduler(sched)
    /\ UNCHANGED <<now, configs, nextId, history, loop, req, call>>

StopScheduler ==
    /\ sched' = stop_scheduler(sched)
    /\ UNCHANGED <<now, configs, nextId, history, loop, req, call>>

UpdateValidationInterval(new_interval) ==
    /\ sched' = update_validation_interval(sched, new_interval)
    /\ UNCHANGED <<now, configs, nextId, history, loop, req, call>>

\* ------------------------------------------------------ the retention
DaysToKeep == 30
HoursPerDay == 24

\* As OlderThan, with <= for <.
OlderThan_Inclusive(record, t, days_to_keep) ==
    record.validated_at <= t - days_to_keep * HoursPerDay

\* validated_at < utcnow() - timedelta(days=days_to_keep)
OlderThan(record, t, days_to_keep) ==
    record.validated_at < t - days_to_keep * HoursPerDay

\* As cleanup_old_validation_history, the delete staying when the commit fails.
cleanup_old_validation_history_NoRollback(hist, t, days_to_keep, commitOk) ==
    [history |-> SelectSeq(hist, LAMBDA r : ~OlderThan(r, t, days_to_keep)),
     result |-> [success |-> commitOk,
                 deleted_records |-> IF commitOk
                                     THEN Len(SelectSeq(hist, LAMBDA r : OlderThan(r, t, days_to_keep)))
                                     ELSE 0,
                 ran |-> TRUE]]

\* ChannelValidatorService.cleanup_old_validation_history: the old records
\* are counted and deleted in one commit; when the query, the delete or the
\* commit raises, the session is rolled back and the failure is returned.
cleanup_old_validation_history(hist, t, days_to_keep, commitOk) ==
    LET count_to_delete == Len(SelectSeq(hist, LAMBDA r : OlderThan(r, t, days_to_keep)))
    IN  IF commitOk
        THEN [history |-> SelectSeq(hist, LAMBDA r : ~OlderThan(r, t, days_to_keep)),
              result |-> [success |-> TRUE, deleted_records |-> count_to_delete,
                          ran |-> TRUE]]
        ELSE [history |-> hist,
              result |-> [success |-> FALSE, deleted_records |-> 0, ran |-> TRUE]]

\* The timer of the cleanup job fires while the scheduler runs:
\* PeriodicValidationTask.cleanup_old_validation_history logs what it got.
CleanupHistory(commitOk) ==
    /\ sched.is_running
    /\ CleanupJob.id \in Range(sched.jobs)
    /\ LET out == cleanup_old_validation_history(history, now, DaysToKeep, commitOk)
       IN  /\ history' = out.history
           /\ sched' = [sched EXCEPT !.cleanup_result = out.result]
    /\ UNCHANGED <<now, configs, nextId, loop, req, call>>

Init ==
    /\ now = 0
    /\ configs = << >>
    /\ nextId = 1
    /\ history = << >>
    /\ loop = IdleLoop
    /\ req = IdleReq
    /\ sched = NewScheduler
    /\ call = NoCall

\* ---------------------------------------------------------- the sweep
\* The rows a query returns come in no fixed order.
Orderings(S) ==
    {s \in [1..Cardinality(S) -> S] : \A i, j \in 1..Cardinality(S) : s[i] = s[j] => i = j}

LoadAll(cfgs, order) == [i \in 1..Len(order) |-> Load(cfgs, order[i])]

\* As get_channels_needing_validation, with <= for <.
get_channels_needing_validation_Inclusive(cfgs, t, max_age_hours) ==
    {a \in DOMAIN cfgs :
        \/ cfgs[a].last_validation_at = NullTime
        \/ cfgs[a].last_validation_at <= t - max_age_hours}

\* last_validation_at IS NULL OR last_validation_at < utcnow() - max_age_hours
get_channels_needing_validation(cfgs, t, max_age_hours) ==
    {a \in DOMAIN cfgs :
        \/ cfgs[a].last_validation_at = NullTime
        \/ cfgs[a].last_validation_at < t - max_age_hours}

\* As ImmediateChannels, the rows validated within the hour left out.
ImmediateChannels_Stale(cfgs, account_id) ==
    {a \in DOMAIN cfgs :
        /\ account_id # 0 => a = account_id
        /\ cfgs[a].last_validation_at = NullTime}

\* filter_by(account_id = account_id).all(), or all() when account_id is None (0).
ImmediateChannels(cfgs, account_id) ==
    IF account_id # 0 THEN {a \in DOMAIN cfgs : a = account_id} ELSE DOMAIN cfgs

ResultEntry(loaded, validation_result) ==
    [account_id |-> loaded.account_id, validation_result |-> validation_result]

ServiceError ==
    [valid |-> FALSE, error |-> <<"Service error: ", "credentials">>,
     permissions_changed |-> FALSE, missing_permissions |-> << >>]

\* As AfterEntry, the loop ending at the first entry that is not valid.
AfterEntry_Aborting(l, entry) ==
    [pc |-> IF l.idx < Len(l.channels) /\ entry.validation_result.valid
            THEN "credentials" ELSE "finished",
     mode |-> l.mode,
     account_id |-> l.account_id,
     channels |-> l.channels,
     idx |-> l.idx + 1,
     credentials |-> "",
     results |-> Append(l.results, entry)]

\* The position of the loop after the entry of channels[idx] was appended.
AfterEntry(l, entry) ==
    [pc |-> IF l.idx < Len(l.channels) THEN "credentials" ELSE "finished",
     mode |-> l.mode,
     account_id |-> l.account_id,
     channels |-> l.channels,
     idx |-> l.idx + 1,
     credentials |-> "",
     results |-> Append(l.results, entry)]

\* As StartPeriodic, the timer firing also after the scheduler was shut down.
StartPeriodic_Unstopped ==
    /\ PeriodicJob.id \in Range(sched.jobs)
    /\ loop.pc = "idle"
    /\ sched.instances < PeriodicJob.max_instances
    /\ sched' = [sched EXCEPT !.instances = @ + 1]
    /\ LET selected == get_channels_needing_validation(configs, now, MaxAgeHours)
       IN  \E order \in Orderings(selected) :
              loop' = [IdleLoop EXCEPT !.pc = IF selected = {} THEN "finished"
                                             ELSE "credentials",
                                      !.mode = "periodic",
                                      !.channels = LoadAll(configs, order),
                                      !.idx = 1]
    /\ UNCHANGED <<now, configs, nextId, history, req, call>>

\* The timer of the periodic job fires while the scheduler runs.  With
\* max_instances running instances the run is skipped; otherwise a worker
\* thread runs run_periodic_validation up to the first channel of
\* validate_multiple_channels (with nothing selected it logs and returns).
\* The thread followed is the first instance; a further instance is counted.
StartPeriodic ==
    /\ sched.is_running
    /\ PeriodicJob.id \in Range(sched.jobs)
    /\ loop.pc = "idle" \/ loop.mode = "periodic"
    /\ IF sched.instances >= PeriodicJob.max_instances
       THEN /\ sched' = [sched EXCEPT !.skipped = TRUE]
            /\ UNCHANGED loop
       ELSE /\ sched' = [sched EXCEPT !.instances = @ + 1]
            /\ IF loop.pc = "idle"
               THEN LET selected == get_channels_needing_validation(configs, now, MaxAgeHours)
                    IN  \E order \in Orderings(selected) :
                           loop' = [IdleLoop EXCEPT
                                       !.pc = IF selected = {} THEN "finished"
                                              ELSE "credentials",
                                       !.mode = "periodic",
                                       !.channels = LoadAll(configs, order),
                                       !.idx = 1]
               ELSE UNCHANGED loop
    /\ UNCHANGED <<now, configs, nextId, history, req, call>>

\* run_immediate_validation up to the first channel.
StartImmediate(account_id) ==
    /\ loop.pc = "idle"
    /\ LET selected == ImmediateChannels(configs, account_id)
       IN  /\ selected # {}
           /\ \E order \in Orderings(selected) :
                 loop' = [IdleLoop EXCEPT !.pc = "credentials",
                                          !.mode = "immediate",
                                          !.account_id = account_id,
                                          !.channels = LoadAll(configs, order),
                                          !.idx = 1]
    /\ UNCHANGED <<now, configs, nextId, history, req, sched, call>>

\* get_credentials_func(channel_config.account_id), as create_app wires it:
\* the lookup in the accounts table answers ("resolved"); or it fails and
\* the credentials of the environment are returned in its place
\* ("fallback"); or that fallback raises too ("raises"), and the except
\* branch of the loop appends the entry.
CredentialOutcomes == {"resolved", "fallback", "raises"}

LoopCredentials(outcome) ==
    /\ loop.pc = "credentials"
    /\ loop' = IF outcome # "raises"
               THEN [loop EXCEPT !.pc = "calling", !.credentials = outcome]
               ELSE AfterEntry(loop, ResultEntry(loop.channels[loop.idx], ServiceError))
    /\ UNCHANGED <<now, configs, nextId, history, req, sched, call>>

\* The member lookup answers: validate_single_channel runs to its return
\* and the entry is appended.
LoopValidate(raw, commitOk, fallbackOk) ==
    /\ loop.pc = "calling"
    /\ Len(history) < MaxHistory
    /\ LET loaded == loop.channels[loop.idx]
           out == validate_single_channel(configs, history, loaded, raw, now,
                                          commitOk, fallbackOk)
       IN  /\ configs' = out.configs
           /\ history' = out.history
           /\ loop' = AfterEntry(loop, ResultEntry(loaded, out.result))
    /\ UNCHANGED <<now, nextId, req, sched, call>>

\* validate_multiple_channels returned and the results were logged.
LoopReturn ==
    /\ loop.pc = "finished"
    /\ loop' = IdleLoop
    /\ sched' = IF loop.mode = "periodic"
                THEN [sched EXCEPT !.instances = @ - 1, !.skipped = FALSE]
                ELSE sched
    /\ UNCHANGED <<now, configs, nextId, history, req, call>>

\* ------------------------------------------- the on-demand validation
\* validate_channel (GET /api/channels/validate/<account_id>) up to the call
\* of the member lookup: the row is queried, the credentials are fetched.
RequestStart(a) ==
    /\ req.pc = "idle"
    /\ a \in DOMAIN configs
    /\ req' = [IdleReq EXCEPT !.pc = "calling", !.loaded = Load(configs, a)]
    /\ UNCHANGED <<now, configs, nextId, history, loop, sched, call>>

\* The member lookup answers and validate_channel_permissions runs to its return.
RequestValidate(raw, commitOk, fallbackOk) ==
    /\ req.pc = "calling"
    /\ Len(history) < MaxHistory
    /\ LET out == validate_channel_permissions(configs, history, req.loaded, raw, now,
                                               commitOk, fallbackOk)
       IN  /\ configs' = out.configs
           /\ history' = out.history
           /\ req' = [pc |-> "done", loaded |-> req.loaded, raw |-> raw,
                      committed |-> out.committed, result |-> out.result,
                      response |-> req.response, channel |-> req.channel,
                      stamped_at |-> req.stamped_at]
    /\ UNCHANGED <<now, nextId, loop, sched, call>>

\* The member lookup answers and validate_channel_permissions runs up to
\* its db.session.commit(): channel_config.last_validation_at was assigned
\* datetime.utcnow(), nothing is written yet.
RequestStamp(raw) ==
    /\ req.pc = "calling"
    /\ req' = [req EXCEPT !.pc = "stamped", !.raw = raw, !.stamped_at = now]
    /\ UNCHANGED <<now, configs, nextId, history, loop, sched, call>>

\* As CommitStamped, last_validation_at taking the time of the commit.
CommitStamped_AtCommit(cfgs, hist, loaded, raw, stamped_at, t, commitOk, fallbackOk) ==
    validate_channel_permissions(cfgs, hist, loaded, raw, t, commitOk, fallbackOk)

\* validate_channel_permissions from its db.session.commit() on, at time t,
\* for a unit of work whose last_validation_at was assigned at stamped_at:
\* the record takes its validated_at at the insert, the except block reads
\* utcnow() anew.
CommitStamped(cfgs, hist, loaded, raw, stamped_at, t, commitOk, fallbackOk) ==
    LET unit == ValidationUnit(loaded, get_bot_member_info(raw), stamped_at)
        fallback == FallbackUnit(loaded, t)
    IN  IF commitOk /\ RowPresent(cfgs, loaded) THEN
            [configs |-> CommitUnit(cfgs, loaded, unit),
             history |-> Append(hist, Inserted(unit.record, t)),
             result |-> unit.result,
             committed |-> "unit"]
        ELSE IF fallbackOk /\ RowPresent(cfgs, loaded) THEN
            [configs |-> CommitUnit(cfgs, loaded, fallback),
             history |-> Append(hist, Inserted(fallback.record, t)),
             result |-> fallback.result,
             committed |-> "fallback"]
        ELSE
            [configs |-> cfgs, history |-> hist, result |-> fallback.result,
             committed |-> "none"]

\* The commit of the stamped attempt, and its return.
RequestCommit(commitOk, fallbackOk) ==
    /\ req.pc = "stamped"
    /\ Len(history) < MaxHistory
    /\ LET out == CommitStamped(configs, history, req.loaded, req.raw, req.stamped_at,
                                now, commitOk, fallbackOk)
       IN  /\ configs' = out.configs
           /\ history' = out.history
           /\ req' = [req EXCEPT !.pc = "done", !.committed = out.committed,
                                 !.result = out.result]
    /\ UNCHANGED <<now, nextId, loop, sched, call>>

\* The response is sent.
RequestReturn ==
    /\ req.pc = "done"
    /\ req' = IdleReq
    /\ UNCHANGED <<now, configs, nextId, history, loop, sched, call>>

Tick ==
    /\ now < MaxTime
    /\ now' = now + 1
    /\ UNCHANGED <<configs, nextId, history, loop, req, sched, call>>

\* ------------------------------------------------------------- setup
get_channel_info(kind) ==
    LET clause == ExceptClause(TryBlock(kind))
        failed(error) == [success |-> FALSE, error |-> error]
    IN  CASE clause = "Timeout" -> failed(<<"Telegram API request timeout">>)
          [] clause = "RequestException" -> failed(<<"Network error: ", "connection failed">>)
          [] clause = "Exception" -> failed(<<"Unexpected error: ", TryBlock(kind)>>)
          [] kind = "HttpError" ->
               failed(<<"HTTP ", "status", ": Channel not found or not accessible">>)
          [] kind = "NotOk" -> failed(<<"Bad Request: chat not found">>)
          [] kind = "NoDescription" -> failed(<<"Unknown Telegram API error">>)
          [] Escapes(kind) -> failed(NoText)
          [] OTHER -> [success |-> TRUE, error |-> NoText]

\* Every way a channel fetch can end.
AllChannelOutcomes == GatewayFailureKinds \cup {"NoUsername", "Ok"}

ChannelOutcomes == {"Timeout", "HttpError", "Ok"}

NotAdministrator == <<"Bot is not an administrator in the channel">>
LacksMessage(missing) == <<"Bot lacks required permissions: ">> \o missing

\* As validate_channel_setup, the status of the bot not looked at.
validate_channel_setup_AnyStatus(channelKind, raw) ==
    LET channel_result == get_channel_info(channelKind)
        member_result == get_bot_member_info(raw)
        permissions == member_result.member_info.permissions
        missing_permissions == MissingRequired(permissions)
        failed(error) == [success |-> FALSE, error |-> error, permissions |-> DefaultPermissions]
    IN  IF ~channel_result.success THEN failed(channel_result.error)
        ELSE IF ~member_result.success THEN failed(member_result.error)
        ELSE IF missing_permissions # << >> THEN failed(LacksMessage(missing_permissions))
        ELSE [success |-> TRUE, error |-> NoText, permissions |-> permissions]

validate_channel_setup(channelKind, raw) ==
    LET channel_result == get_channel_info(channelKind)
        member_result == get_bot_member_info(raw)
        permissions == member_result.member_info.permissions
        missing_permissions == MissingRequired(permissions)
        failed(error) == [success |-> FALSE, error |-> error, permissions |-> DefaultPermissions]
    IN  IF ~channel_result.success THEN failed(channel_result.error)
        ELSE IF ~member_result.success THEN failed(member_result.error)
        ELSE IF member_result.member_info.status # "administrator" THEN failed(NotAdministrator)
        ELSE IF missing_permissions # << >> THEN failed(LacksMessage(missing_permissions))
        ELSE [success |-> TRUE, error |-> NoText, permissions |-> permissions]

\* setup_channel_configuration: the row and its 'setup' record are inserted
\* in one commit; a failed commit is rolled back.
SetupChannel(a, channelKind, raw, commitOk) ==
    /\ a \notin DOMAIN configs
    /\ nextId <= MaxConfigId
    /\ Len(history) < MaxHistory
    /\ LET validation_result == validate_channel_setup(channelKind, raw)
           row == [update_permissions(NewConfig(nextId), validation_result.permissions)
                      EXCEPT !.is_validated = TRUE, !.last_validation_at = now]
           record == create_validation_record(nextId, "setup", TRUE, NoText,
                         PermissionsSnapshot(validation_result.permissions))
       IN  IF validation_result.success /\ commitOk
           THEN /\ configs' = (a :> row) @@ configs
                /\ history' = Append(history, Inserted(record, now))
                /\ nextId' = nextId + 1
           ELSE UNCHANGED <<configs, history, nextId>>
    /\ UNCHANGED <<now, loop, req, sched, call>>

\* As uq_channel_configs_account_id, the constraint missing from the table.
uq_channel_configs_account_id_Absent(cfgs, a) == TRUE

\* UniqueConstraint('account_id'): an insert for an account that has a row
\* is refused at the commit.
uq_channel_configs_account_id(cfgs, a) == a \notin DOMAIN cfgs

AlreadyConfigured == <<"Account already has a channel configured">>
SetupError(cause) == <<"Setup error: ", cause>>

\* The answer of the setup endpoint to what setup_channel_configuration returned.
SetupResponse(success) ==
    [status |-> IF success THEN 200 ELSE 400, success |-> success, valid |-> FALSE,
     permissions_changed |-> FALSE]

\* setup_channel (POST /api/channels/setup) up to the calls of the Gateway:
\* setup_channel_configuration queries the row of the account and returns
\* at once when there is one.
SetupStart(a) ==
    /\ req.pc = "idle"
    /\ req' = IF a \in DOMAIN configs
              THEN [IdleReq EXCEPT !.pc = "done",
                                   !.loaded = [NoObject EXCEPT !.account_id = a],
                                   !.result = [NoResult EXCEPT !.error = AlreadyConfigured],
                                   !.response = SetupResponse(FALSE)]
              ELSE [IdleReq EXCEPT !.pc = "setting_up",
                                   !.loaded = [NoObject EXCEPT !.account_id = a]]
    /\ UNCHANGED <<now, configs, nextId, history, loop, sched, call>>

\* As SetupFinish, the rollback of the except branch missing: the row that
\* the flush sent stays when the commit raises.
SetupFinish_NoRollback(channelKind, raw, commitOk) ==
    /\ req.pc = "setting_up"
    /\ nextId <= MaxConfigId
    /\ Len(history) < MaxHistory
    /\ LET a == req.loaded.account_id
           validation_result == validate_channel_setup(channelKind, raw)
           row == [update_permissions(NewConfig(nextId), validation_result.permissions)
                      EXCEPT !.is_validated = TRUE, !.last_validation_at = now]
           record == create_validation_record(nextId, "setup", TRUE, NoText,
                         PermissionsSnapshot(validation_result.permissions))
           unique == uq_channel_configs_account_id(configs, a)
           flushed == validation_result.success /\ unique
           inserted == flushed /\ commitOk
           error == IF ~validation_result.success THEN validation_result.error
                    ELSE IF ~unique THEN SetupError("IntegrityError")
                    ELSE IF ~commitOk THEN SetupError("commit")
                    ELSE NoText
       IN  /\ IF flushed
              THEN /\ configs' = (a :> row) @@ configs
                   /\ history' = IF inserted THEN Append(history, Inserted(record, now))
                                 ELSE history
                   /\ nextId' = nextId + 1
              ELSE UNCHANGED <<configs, history, nextId>>
           /\ req' = [req EXCEPT !.pc = "done", !.raw = raw, !.channel = channelKind,
                                 !.result = [NoResult EXCEPT !.error = error],
                                 !.response = SetupResponse(inserted)]
    /\ UNCHANGED <<now, loop, sched, call>>

\* The Gateway answered: validate_channel_setup returns, and when it
\* succeeded the row and its 'setup' record are inserted in one commit; a
\* commit that raises is rolled back and returned as a setup error.
SetupFinish(channelKind, raw, commitOk) ==
    /\ req.pc = "setting_up"
    /\ nextId <= MaxConfigId
    /\ Len(history) < MaxHistory
    /\ LET a == req.loaded.account_id
           validation_result == validate_channel_setup(channelKind, raw)
           row == [update_permissions(NewConfig(nextId), validation_result.permissions)
                      EXCEPT !.is_validated = TRUE, !.last_validation_at = now]
           record == create_validation_record(nextId, "setup", TRUE, NoText,
                         PermissionsSnapshot(validation_result.permissions))
           unique == uq_channel_configs_account_id(configs, a)
           inserted == validation_result.success /\ commitOk /\ unique
           error == IF ~validation_result.success THEN validation_result.error
                    ELSE IF ~unique THEN SetupError("IntegrityError")
                    ELSE IF ~commitOk THEN SetupError("commit")
                    ELSE NoText
       IN  /\ IF inserted
              THEN /\ configs' = (a :> row) @@ configs
                   /\ history' = Append(history, Inserted(record, now))
                   /\ nextId' = nextId + 1
              ELSE UNCHANGED <<configs, history, nextId>>
           /\ req' = [req EXCEPT !.pc = "done", !.raw = raw, !.channel = channelKind,
                                 !.result = [NoResult EXCEPT !.error = error],
                                 !.response = SetupResponse(inserted)]
    /\ UNCHANGED <<now, loop, sched, call>>

\* ------------------------------------------------- the revalidation
\* revalidate_channel_endpoint (POST /api/channels/revalidate/<account_id>)
\* up to the member lookup of revalidate_channel.
RevalidateStart(a) ==
    /\ req.pc = "idle"
    /\ a \in DOMAIN configs
    /\ req' = [IdleReq EXCEPT !.pc = "revalidating", !.loaded = Load(configs, a)]
    /\ UNCHANGED <<now, configs, nextId, history, loop, sched, call>>

\* revalidate_channel: validate_channel_permissions runs to its return, and
\* the channel is asked for.
RevalidateValidate(raw, commitOk, fallbackOk) ==
    /\ req.pc = "revalidating"
    /\ Len(history) < MaxHistory
    /\ LET out == validate_channel_permissions(configs, history, req.loaded, raw, now,
                                               commitOk, fallbackOk)
       IN  /\ configs' = out.configs
           /\ history' = out.history
           /\ req' = [req EXCEPT !.pc = "refreshing", !.raw = raw,
                                 !.committed = out.committed, !.result = out.result]
    /\ UNCHANGED <<now, nextId, loop, sched, call>>

\* What getChat tells of the channel.
RefreshedChannelInfo == [title |-> <<"new title">>, members_count |-> 1]

\* The answer of the endpoint to what revalidate_channel returned.
RevalidateResponse(success, validation_result) ==
    IF success
    THEN [status |-> 200, success |-> TRUE, valid |-> validation_result.valid,
          permissions_changed |-> validation_result.permissions_changed]
    ELSE [status |-> 400, success |-> FALSE, valid |-> FALSE, permissions_changed |-> FALSE]

\* revalidate_channel after the validation: get_channel_info answers; when it
\* succeeds the title and the member count are assigned and committed, and a
\* commit that raises is caught as a failure of the whole revalidation.
RevalidateRefresh(channelKind, commitOk) ==
    /\ req.pc = "refreshing"
    /\ LET channel_info_result == get_channel_info(channelKind)
           written == /\ channel_info_result.success
                      /\ commitOk
                      /\ RowPresent(configs, req.loaded)
           raised == channel_info_result.success /\ ~written
       IN  /\ configs' = IF written
                          THEN [configs EXCEPT ![req.loaded.account_id] =
                                   [@ EXCEPT !.channel_title = RefreshedChannelInfo.title,
                                             !.channel_member_count =
                                                 RefreshedChannelInfo.members_count]]
                          ELSE configs
           /\ req' = [req EXCEPT !.pc = "done",
                                 !.response = RevalidateResponse(~raised, req.result)]
    /\ UNCHANGED <<now, nextId, history, loop, sched, call>>

\* ------------------------------------------- save, update and delete
\* The JSON body of PUT /api/accounts/<account_id>/channel: whether it carries
\* channel_id, channel_username and channel_title, the value of is_verified
\* if present, the flags true in permissions if present.
SaveData(channel, is_verified, permissions) ==
    [channel |-> channel, is_verified |-> is_verified, permissions |-> permissions]

SystemSaveData ==
    { SaveData(TRUE, <<TRUE>>, << >>),
      SaveData(TRUE, << >>, <<{"can_post_messages", "can_edit_messages"}>>),
      SaveData(FALSE, <<FALSE>>, << >>) }

\* The assignments of save_account_channel (routes/accounts.py) on the row.
SavedRow(row, data, t) ==
    LET verified == IF data.is_verified # << >>
                    THEN [row EXCEPT !.is_validated = data.is_verified[1]]
                    ELSE row
        permitted == IF data.permissions # << >>
                     THEN update_permissions(verified, FlagsToPermissions(data.permissions[1]))
                     ELSE verified
    IN  IF data.is_verified = <<TRUE>>
        THEN [permitted EXCEPT !.last_validation_at = t]
        ELSE permitted

\* save_account_channel (routes/accounts.py): the row is updated, or created;
\* a created row without the NOT NULL channel columns fails its commit.
SaveAccountChannel(a, data, commitOk) ==
    /\ IF a \in DOMAIN configs
       THEN /\ configs' = IF commitOk
                          THEN [configs EXCEPT ![a] = SavedRow(@, data, now)]
                          ELSE configs
            /\ UNCHANGED nextId
       ELSE /\ nextId <= MaxConfigId
            /\ IF commitOk /\ data.channel
               THEN /\ configs' = (a :> SavedRow(NewConfig(nextId), data, now)) @@ configs
                    /\ nextId' = nextId + 1
               ELSE UNCHANGED <<configs, nextId>>
    /\ UNCHANGED <<now, history, loop, req, sched, call>>

\* save_account_channel (routes/channels.py): an existing row takes
\* is_verified (False when absent); a new row has no channel_id, which is
\* NOT NULL, so its commit fails and is rolled back.
SaveDashboardChannel(a, is_verified, commitOk) ==
    /\ configs' = IF a \in DOMAIN configs /\ commitOk
                  THEN [configs EXCEPT ![a] = [@ EXCEPT !.is_validated = is_verified]]
                  ELSE configs
    /\ UNCHANGED <<now, nextId, history, loop, req, sched, call>>

\* The JSON body of PUT /api/channels/update-permissions.
UpdateData(permissions, validation_error) ==
    [permissions |-> permissions, validation_error |-> validation_error]

SystemUpdateData ==
    { UpdateData(("can_edit_messages" :> FALSE), NoText),
      UpdateData(("can_post_messages" :> FALSE),
                 <<"Permission denied for posting messages">>) }

\* As UpdatedRow, a validation_error stored without is_validated being touched.
UpdatedRow_ErrorOnly(row, data) ==
    LET updated == update_permissions(row, data.permissions)
    IN  IF data.validation_error # NoText
        THEN [updated EXCEPT !.validation_error = data.validation_error]
        ELSE updated

UpdatedRow(row, data) ==
    LET updated == update_permissions(row, data.permissions)
    IN  IF data.validation_error # NoText
        THEN [updated EXCEPT !.validation_error = data.validation_error,
                             !.is_validated = FALSE]
        ELSE updated

\* update_permissions (routes/channels.py).
UpdatePermissions(a, data, commitOk) ==
    /\ a \in DOMAIN configs
    /\ DOMAIN data.permissions # {}
    /\ configs' = IF commitOk THEN [configs EXCEPT ![a] = UpdatedRow(@, data)] ELSE configs
    /\ UNCHANGED <<now, nextId, history, loop, req, sched, call>>

\* The keys the bodies of the update requests name: two flags and an
\* attribute of the row that is no flag.
UpdateKeys == {"can_post_messages", "can_pin_messages", "is_validated"}

UpdateRequests ==
    { UpdateData(permissions, validation_error) :
        permissions \in UNION {[names -> BOOLEAN] : names \in SUBSET UpdateKeys},
        validation_error \in {NoText, <<"Permission denied for posting messages">>} }

UpdateFailure(status, error) ==
    [status |-> status, success |-> FALSE, error |-> error, updated_permissions |-> << >>]

\* What update_permissions (routes/channels.py) answers: the early returns in
\* the order of the code, the except block, the success.
UpdateResponse(cfgs, a, data, commitOk) ==
    IF a = 0 THEN UpdateFailure(400, <<"account_id is required">>)
    ELSE IF DOMAIN data.permissions = {}
    THEN UpdateFailure(400, <<"permissions are required">>)
    ELSE IF a \notin DOMAIN cfgs
    THEN UpdateFailure(404, <<"No channel configuration found for account">>)
    ELSE IF ~commitOk
    THEN UpdateFailure(500, <<"Error updating permissions: ", "commit">>)
    ELSE [status |-> 200, success |-> TRUE, error |-> NoText,
          updated_permissions |-> get_permissions_dict(UpdatedRow(cfgs[a], data))]

\* update_permissions (routes/channels.py) with its answer: every request,
\* also one that returns early.
CallUpdatePermissions(a, data, commitOk) ==
    /\ call.op = ""
    /\ configs' = IF UpdateResponse(configs, a, data, commitOk).success
                  THEN [configs EXCEPT ![a] = UpdatedRow(@, data)]
                  ELSE configs
    /\ call' = [op |-> "update_permissions",
                input |-> [account_id |-> a, data |-> data],
                raised |-> FALSE,
                output |-> UpdateResponse(configs, a, data, commitOk)]
    /\ UNCHANGED <<now, nextId, history, loop, req, sched>>

\* As DeleteChannel, the records of the channel going with its row.
DeleteChannel_Cascading(a, commitOk) ==
    /\ a \in DOMAIN configs
    /\ configs' = IF commitOk THEN [b \in DOMAIN configs \ {a} |-> configs[b]] ELSE configs
    /\ history' = IF commitOk
                  THEN SelectSeq(history, LAMBDA r : r.channel_config_id # configs[a].id)
                  ELSE history
    /\ UNCHANGED <<now, nextId, loop, req, sched, call>>

\* delete_account_channel (both routes): the row goes, its history stays.
DeleteChannel(a, commitOk) ==
    /\ a \in DOMAIN configs
    /\ configs' = IF commitOk THEN [b \in DOMAIN configs \ {a} |-> configs[b]] ELSE configs
    /\ UNCHANGED <<now, nextId, history, loop, req, sched, call>>

\* ----------------------------------------------------- specifications
\* The service: setup, on-demand validation and the endpoints that write the
\* configuration of an account, in any order, from an empty store.
Next ==
    \/ Tick
    \/ \E a \in Accounts : RequestStart(a)
    \/ \E raw \in SystemMemberOutcomes, commitOk, fallbackOk \in BOOLEAN :
          RequestValidate(raw, commitOk, fallbackOk)
    \/ RequestReturn
    \/ \E a \in Accounts, channelKind \in ChannelOutcomes, raw \in SystemMemberOutcomes,
          commitOk \in BOOLEAN : SetupChannel(a, channelKind, raw, commitOk)
    \/ \E a \in Accounts, data \in SystemSaveData, commitOk \in BOOLEAN :
          SaveAccountChannel(a, data, commitOk)
    \/ \E a \in Accounts, is_verified, commitOk \in BOOLEAN :
          SaveDashboardChannel(a, is_verified, commitOk)
    \/ \E a \in Accounts, data \in SystemUpdateData, commitOk \in BOOLEAN :
          UpdatePermissions(a, data, commitOk)
    \/ \E a \in Accounts, commitOk \in BOOLEAN : DeleteChannel(a, commitOk)

Spec == Init /\ [][Next]_vars

\* One validation attempt, over every stored row and every answer of the
\* member lookup; the row may be deleted while the lookup is out.
StoredRows ==
    {[update_permissions(NewConfig(1), FlagsToPermissions(flags))
         EXCEPT !.is_validated = is_validated,
                !.last_validation_at = last_validation_at,
                !.validation_error = validation_error] :
        flags \in SUBSET PermissionNames,
        is_validated \in BOOLEAN,
        last_validation_at \in {NullTime, 0},
        validation_error \in {NoText, <<"Telegram API request timeout">>}}

InitValidator ==
    /\ now = 1
    /\ configs \in {(1 :> row) : row \in StoredRows}
    /\ nextId = 2
    /\ history = << >>
    /\ loop = IdleLoop
    /\ req = IdleReq
    /\ sched = NewScheduler
    /\ call = NoCall

NextValidator ==
    \/ RequestStart(1)
    \/ \E raw \in AllMemberOutcomes, commitOk, fallbackOk \in BOOLEAN :
          RequestValidate(raw, commitOk, fallbackOk)
    \/ \E commitOk \in BOOLEAN : DeleteChannel(1, commitOk)

SpecValidator == InitValidator /\ [][NextValidator]_vars

\* The sweeps of the scheduler over the channels of two accounts: a row that
\* was saved and never validated, or a row as setup left it.
SweepRows(a) ==
    { NewConfig(a),
      [update_permissions(NewConfig(a),
                          FlagsToPermissions({"can_post_messages", "can_edit_messages"}))
          EXCEPT !.is_validated = TRUE, !.last_validation_at = 0] }

SweepMemberOutcomes ==
    { Raw("Timeout", "", {}),
      Raw("Ok", "left", {}),
      Raw("Ok", "administrator", {"can_post_messages", "can_edit_messages"}) }

InitSweep ==
    /\ now = 0
    /\ configs \in {cfgs \in [SweepAccounts -> UNION {SweepRows(a) : a \in SweepAccounts}] :
                       \A a \in SweepAccounts : cfgs[a] \in SweepRows(a)}
    /\ nextId = 3
    /\ history = << >>
    /\ loop = IdleLoop
    /\ req = IdleReq
    /\ sched = start_scheduler(NewScheduler)
    /\ call = NoCall

NextSweep ==
    \/ Tick
    \/ StartPeriodic
    \/ \E account_id \in SweepAccounts \cup {0} : StartImmediate(account_id)
    \/ \E outcome \in CredentialOutcomes : LoopCredentials(outcome)
    \/ \E raw \in SweepMemberOutcomes, commitOk, fallbackOk \in BOOLEAN :
          LoopValidate(raw, commitOk, fallbackOk)
    \/ LoopReturn

SpecSweep == InitSweep /\ [][NextSweep]_vars

\* The periodic sweeps alone, at an hour at which both channels are due (one
\* never validated or validated more than an hour ago).  The scheduler runs
\* and stays running; its timer fires again and again; every call of the
\* credentials function and of the Gateway returns, with a result or with an
\* error; the store takes every commit.
InitSweepLive ==
    /\ now = MaxAgeHours + 1
    /\ configs \in {cfgs \in [SweepAccounts -> UNION {SweepRows(a) : a \in SweepAccounts}] :
                       \A a \in SweepAccounts : cfgs[a] \in SweepRows(a)}
    /\ nextId = 3
    /\ history = << >>
    /\ loop = IdleLoop
    /\ req = IdleReq
    /\ sched = start_scheduler(NewScheduler)
    /\ call = NoCall

SweepCredentialsReturn == \E outcome \in CredentialOutcomes : LoopCredentials(outcome)

SweepGatewayReturns == \E raw \in SweepMemberOutcomes : LoopValidate(raw, TRUE, TRUE)

NextSweepLive ==
    \/ StartPeriodic
    \/ SweepCredentialsReturn
    \/ SweepGatewayReturns
    \/ LoopReturn

SpecSweepLive ==
    /\ InitSweepLive
    /\ [][NextSweepLive]_vars
    /\ WF_vars(StartPeriodic)
    /\ WF_vars(SweepCredentialsReturn)
    /\ WF_vars(SweepGatewayReturns)
    /\ WF_vars(LoopReturn)

\* The scheduler over the channel of one account, a month after the first
\* records of its history were written: it is started, stopped and given
\* another interval while its two jobs run.
NewIntervals == {2 * PERIODIC_VALIDATION_INTERVAL}

RetentionNow == (DaysToKeep + 1) * HoursPerDay

\* The times of the records of the history: 31, 30 and 29 days ago.
RecordTimes == {0, HoursPerDay, 2 * HoursPerDay}

StoredRecords ==
    {Inserted(create_validation_record(1, "permission_check", TRUE, NoText, NoSnapshot), t) :
        t \in RecordTimes}

StoredHistories ==
    {h \in UNION {[1..n -> StoredRecords] : n \in 0..MaxHistory} :
        \A i, j \in DOMAIN h : i < j => h[i].validated_at <= h[j].validated_at}

InitScheduler ==
    /\ now = RetentionNow
    /\ configs \in {(1 :> row) : row \in SweepRows(1)}
    /\ nextId = 2
    /\ history \in StoredHistories
    /\ loop = IdleLoop
    /\ req = IdleReq
    /\ sched = NewScheduler
    /\ call = NoCall

NextScheduler ==
    \/ StartScheduler
    \/ StopScheduler
    \/ \E new_interval \in NewIntervals : UpdateValidationInterval(new_interval)
    \/ StartPeriodic
    \/ \E outcome \in CredentialOutcomes : LoopCredentials(outcome)
    \/ \E raw \in SweepMemberOutcomes, commitOk, fallbackOk \in BOOLEAN :
          LoopValidate(raw, commitOk, fallbackOk)
    \/ LoopReturn
    \/ \E commitOk \in BOOLEAN : CleanupHistory(commitOk)

SpecScheduler == InitScheduler /\ [][NextScheduler]_vars

\* The history of one account under the running scheduler's cleanup job and
\* the endpoints: the channel is validated on demand, set up again, updated
\* and deleted while the cleanup runs.
InitRetention ==
    /\ now = RetentionNow
    /\ configs \in {(1 :> row) : row \in SweepRows(1)}
    /\ nextId = 2
    /\ history \in StoredHistories
    /\ loop = IdleLoop
    /\ req = IdleReq
    /\ sched = start_scheduler(NewScheduler)
    /\ call = NoCall

NextRetention ==
    \/ \E commitOk \in BOOLEAN : CleanupHistory(commitOk)
    \/ RequestStart(1)
    \/ \E raw \in SweepMemberOutcomes, commitOk, fallbackOk \in BOOLEAN :
          RequestValidate(raw, commitOk, fallbackOk)
    \/ RequestReturn
    \/ \E channelKind \in ChannelOutcomes, raw \in SweepMemberOutcomes, commitOk \in BOOLEAN :
          SetupChannel(1, channelKind, raw, commitOk)
    \/ \E data \in SystemUpdateData, commitOk \in BOOLEAN : UpdatePermissions(1, data, commitOk)
    \/ \E commitOk \in BOOLEAN : DeleteChannel(1, commitOk)

SpecRetention == InitRetention /\ [][NextRetention]_vars

\* A sweep and an on-demand validation of the channel of one account, each
\* in its own thread and its own session.
ConcurrentMemberOutcomes ==
    SweepMemberOutcomes \cup {Raw("Ok", "administrator", {"can_post_messages"})}

InitConcurrent ==
    /\ now = 0
    /\ configs \in {(1 :> row) : row \in SweepRows(1)}
    /\ nextId = 2
    /\ history = << >>
    /\ loop = IdleLoop
    /\ req = IdleReq
    /\ sched = start_scheduler(NewScheduler)
    /\ call = NoCall

NextConcurrent ==
    \/ Tick
    \/ StartPeriodic
    \/ StartImmediate(1)
    \/ \E outcome \in CredentialOutcomes : LoopCredentials(outcome)
    \/ \E raw \in ConcurrentMemberOutcomes, commitOk, fallbackOk \in BOOLEAN :
          LoopValidate(raw, commitOk, fallbackOk)
    \/ LoopReturn
    \/ RequestStart(1)
    \/ \E raw \in ConcurrentMemberOutcomes, commitOk, fallbackOk \in BOOLEAN :
          RequestValidate(raw, commitOk, fallbackOk)
    \/ RequestReturn

SpecConcurrent == InitConcurrent /\ [][NextConcurrent]_vars

\* One channel written by a validation on demand, whose assignment of
\* last_validation_at and whose commit are two steps, beside the sweeps
\* (periodic and immediate) and the saves of the dashboard, while time passes.
InitStamp ==
    /\ now = 0
    /\ configs \in {(1 :> row) : row \in SweepRows(1)}
    /\ nextId = 2
    /\ history = << >>
    /\ loop = IdleLoop
    /\ req = IdleReq
    /\ sched = start_scheduler(NewScheduler)
    /\ call = NoCall

\* The saves of this specification: is_verified true (the time is written)
\* and false (it is not).
StampSaveData == {SaveData(TRUE, <<TRUE>>, << >>), SaveData(TRUE, <<FALSE>>, << >>)}

NextStamp ==
    \/ Tick
    \/ StartPeriodic
    \/ StartImmediate(1)
    \/ \E outcome \in CredentialOutcomes : LoopCredentials(outcome)
    \/ \E raw \in SweepMemberOutcomes, commitOk, fallbackOk \in BOOLEAN :
          LoopValidate(raw, commitOk, fallbackOk)
    \/ LoopReturn
    \/ RequestStart(1)
    \/ \E raw \in SweepMemberOutcomes : RequestStamp(raw)
    \/ \E commitOk, fallbackOk \in BOOLEAN : RequestCommit(commitOk, fallbackOk)
    \/ RequestReturn
    \/ \E data \in StampSaveData, commitOk \in BOOLEAN : SaveAccountChannel(1, data, commitOk)

SpecStamp == InitStamp /\ [][NextStamp]_vars

\* The revalidation endpoint on the channel of one account.
InitRevalidate ==
    /\ now = 0
    /\ configs \in {(1 :> row) : row \in SweepRows(1)}
    /\ nextId = 2
    /\ history = << >>
    /\ loop = IdleLoop
    /\ req = IdleReq
    /\ sched = NewScheduler
    /\ call = NoCall

NextRevalidate ==
    \/ Tick
    \/ RevalidateStart(1)
    \/ \E raw \in ConcurrentMemberOutcomes, commitOk, fallbackOk \in BOOLEAN :
          RevalidateValidate(raw, commitOk, fallbackOk)
    \/ \E channelKind \in ChannelOutcomes, commitOk \in BOOLEAN :
          RevalidateRefresh(channelKind, commitOk)
    \/ RequestReturn

SpecRevalidate == InitRevalidate /\ [][NextRevalidate]_vars

\* A call of get_channel_info: it returns or it raises.
CallGetChannelInfo(kind) ==
    /\ call' = [op |-> "get_channel_info", input |-> kind, raised |-> Escapes(kind),
                output |-> get_channel_info(kind)]
    /\ UNCHANGED <<now, configs, nextId, history, loop, req, sched>>

\* A call of get_bot_member_info.
CallGetBotMemberInfo(raw) ==
    /\ call' = [op |-> "get_bot_member_info", input |-> raw, raised |-> Escapes(raw.kind),
                output |-> get_bot_member_info(raw)]
    /\ UNCHANGED <<now, configs, nextId, history, loop, req, sched>>

\* The Gateway by itself, over every answer of the remote side.
InitGateway ==
    /\ now = 0
    /\ configs = << >>
    /\ nextId = 1
    /\ history = << >>
    /\ loop = IdleLoop
    /\ req = IdleReq
    /\ sched = NewScheduler
    /\ call = NoCall

NextGateway ==
    \/ \E kind \in AllChannelOutcomes : CallGetChannelInfo(kind)
    \/ \E raw \in AllMemberOutcomes : CallGetBotMemberInfo(raw)

SpecGateway == InitGateway /\ [][NextGateway]_vars

\* The functions of utils/permissions.py by themselves, over every
\* permissions dict.
InitPermissions ==
    /\ now = 0
    /\ configs = << >>
    /\ nextId = 1
    /\ history = << >>
    /\ loop = IdleLoop
    /\ req = IdleReq
    /\ sched = NewScheduler
    /\ call = NoCall

NextPermissions ==
    \/ /\ call.op = ""
       /\ \E permissions \in PermissionDicts : CallCheckRequiredPermissions(permissions)
    \/ /\ call.op = ""
       /\ \E old_permissions, new_permissions \in PermissionDicts :
             CallComparePermissions(old_permissions, new_permissions)
    \/ /\ call.op = ""
       /\ \E flags \in SUBSET PermissionNames, new_permissions \in PermissionDicts :
             CallValidatePermissionUpdate(flags, new_permissions)
    \/ CallReturn

SpecPermissions == InitPermissions /\ [][NextPermissions]_vars

\* The setup endpoint for one account beside another setup, the save
\* endpoint and the deletion of the channel, from an empty store.
SetupMemberOutcomes ==
    SystemMemberOutcomes \cup
       { Raw("HttpError", "", {}),
         Raw("Ok", "left", {}),
         Raw("Ok", "member", {"can_post_messages", "can_edit_messages"}) }

InitSetup ==
    /\ now = 0
    /\ configs = << >>
    /\ nextId = 1
    /\ history = << >>
    /\ loop = IdleLoop
    /\ req = IdleReq
    /\ sched = NewScheduler
    /\ call = NoCall

NextSetup ==
    \/ Tick
    \/ SetupStart(1)
    \/ \E channelKind \in ChannelOutcomes, raw \in SetupMemberOutcomes, commitOk \in BOOLEAN :
          SetupFinish(channelKind, raw, commitOk)
    \/ RequestReturn
    \/ \E channelKind \in ChannelOutcomes, raw \in SetupMemberOutcomes, commitOk \in BOOLEAN :
          SetupChannel(1, channelKind, raw, commitOk)
    \/ \E data \in SystemSaveData, commitOk \in BOOLEAN : SaveAccountChannel(1, data, commitOk)
    \/ \E commitOk \in BOOLEAN : DeleteChannel(1, commitOk)

SpecSetup == InitSetup /\ [][NextSetup]_vars

\* Update requests for two accounts and for no account, against rows that
\* setups create and deletions remove.
InitUpdate ==
    /\ now = 0
    /\ configs = << >>
    /\ nextId = 1
    /\ history = << >>
    /\ loop = IdleLoop
    /\ req = IdleReq
    /\ sched = NewScheduler
    /\ call = NoCall

NextUpdate ==
    \/ \E a \in SweepAccounts, raw \in SetupMemberOutcomes, commitOk \in BOOLEAN :
          SetupChannel(a, "Ok", raw, commitOk)
    \/ /\ call.op = ""
       /\ \E a \in {0} \cup SweepAccounts, data \in UpdateRequests, commitOk \in BOOLEAN :
             CallUpdatePermissions(a, data, commitOk)
    \/ CallReturn
    \/ \E a \in SweepAccounts, commitOk \in BOOLEAN : DeleteChannel(a, commitOk)

SpecUpdate == InitUpdate /\ [][NextUpdate]_vars

TypeOK ==
    /\ now \in 0..MaxTime
    /\ DOMAIN configs \subseteq SweepAccounts
    /\ Len(history) <= MaxHistory

\* ------------------------------------------------------------ properties
\* The step in which an on-demand attempt runs from the answer of the member
\* lookup to its return.
AttemptStep == req.pc = "calling" /\ req'.pc = "done"

\* The answer of the member lookup calls for SUCCEEDED: the bot is an
\* administrator and holds every required permission.
Compliant(raw) ==
    /\ raw.kind = "Ok"
    /\ raw.status = "administrator"
    /\ Range(REQUIRED_PERMISSIONS) \subseteq raw.flags

LastRecord(hist) == hist[Len(hist)]

\* C1: in every reachable state, every ChannelConfig with is_validated = true
\* has validation_error = null.
C1_ValidatedHasNoError ==
    \A a \in DOMAIN configs :
        configs[a].is_validated => configs[a].validation_error = NoText

\* C2: an attempt whose unit of work is committed writes the three status
\* fields together: is_validated is true exactly when the outcome is
\* SUCCEEDED, last_validation_at is the attempt time, validation_error is the
\* failure reason (the one its history record carries; the Gateway's error
\* verbatim after a Gateway failure) when FAILED and null when SUCCEEDED.
C2_StatusFieldsTogether ==
    [][(AttemptStep /\ req'.committed # "none") =>
          LET row == configs'[req.loaded.account_id]
              record == LastRecord(history')
              succeeded == req'.committed = "unit" /\ Compliant(req'.raw)
          IN  /\ row.is_validated <=> succeeded
              /\ row.is_validated = req'.result.valid
              /\ row.last_validation_at = now
              /\ row.validation_error = NoText <=> succeeded
              /\ row.validation_error = record.error_message
              /\ (req'.committed = "unit" /\ req'.raw.kind # "Ok") =>
                    row.validation_error = get_bot_member_info(req'.raw).error
    ]_vars

C2_Witness ==
    /\ req.pc = "done"
    /\ req.committed = "unit"
    /\ req.raw.kind = "HttpError"
    /\ 1 \in DOMAIN configs
    /\ ~configs[1].is_validated
    /\ configs[1].last_validation_at = now
    /\ configs[1].validation_error = <<"HTTP ", "status", ": Unable to get member info">>

\* C3: whatever the five permission flags the member lookup returns, an
\* attempt that finds a status other than administrator ends FAILED: the
\* result returned is not valid and, its unit of work committed,
\* is_validated is false and the record appended has result false.
C3_NotAdministratorFails ==
    [][(AttemptStep /\ req'.raw.kind = "Ok" /\ req'.raw.status # "administrator") =>
          /\ ~req'.result.valid
          /\ req'.committed # "none" =>
                /\ ~configs'[req.loaded.account_id].is_validated
                /\ Len(history') = Len(history) + 1
                /\ ~LastRecord(history').validation_result
    ]_vars

C3_Witness ==
    /\ req.pc = "done"
    /\ req.committed = "unit"
    /\ req.raw = Raw("Ok", "member", PermissionNames)
    /\ ~req.result.valid
    /\ 1 \in DOMAIN configs
    /\ ~configs[1].is_validated
    /\ Len(history) = 1
    /\ ~history[1].validation_result

\* C4: an attempt whose member lookup times out leaves the five stored
\* permission flags as they were and, its unit of work committed, appends
\* exactly one history record and sets last_validation_at to the attempt time.
C4_TimeoutKeepsPermissions ==
    [][(AttemptStep /\ req'.raw.kind = "Timeout") =>
          /\ DOMAIN configs' = DOMAIN configs
          /\ \A a \in DOMAIN configs :
                get_permissions_dict(configs'[a]) = get_permissions_dict(configs[a])
          /\ req'.committed # "none" =>
                /\ Len(history') = Len(history) + 1
                /\ SubSeq(history', 1, Len(history)) = history
                /\ configs'[req.loaded.account_id].last_validation_at = now
    ]_vars

C4_Witness ==
    /\ req.pc = "done"
    /\ req.committed = "unit"
    /\ req.raw.kind = "Timeout"
    /\ 1 \in DOMAIN configs
    /\ get_permissions_dict(configs[1]) = FlagsToPermissions(PermissionNames)
    /\ configs[1].last_validation_at = now
    /\ Len(history) = 1

\* C5: when the bot is an administrator and the fetched permissions lack a
\* required permission, the attempt ends FAILED and, its unit of work
\* committed, validation_error names every missing required permission, the
\* record appended has result false and the fetched permissions as its
\* snapshot, and the stored permissions are the fetched ones.
C5_MissingRequiredFails ==
    [][(/\ AttemptStep
        /\ req'.raw.kind = "Ok"
        /\ req'.raw.status = "administrator"
        /\ ~(Range(REQUIRED_PERMISSIONS) \subseteq req'.raw.flags)) =>
          /\ ~req'.result.valid
          /\ req'.committed = "unit" =>
                LET row == configs'[req.loaded.account_id]
                    record == LastRecord(history')
                    fetched == FlagsToPermissions(req'.raw.flags)
                IN  /\ ~row.is_validated
                    /\ \A p \in Range(REQUIRED_PERMISSIONS) \ req'.raw.flags :
                          p \in Range(row.validation_error)
                    /\ Len(history') = Len(history) + 1
                    /\ ~record.validation_result
                    /\ record.permissions_snapshot = PermissionsSnapshot(fetched)
                    /\ get_permissions_dict(row) = fetched
    ]_vars

\* Stored post and edit, fetched post without edit: stored edit is false.
C5_Witness ==
    /\ req.pc = "done"
    /\ req.committed = "unit"
    /\ req.raw = Raw("Ok", "administrator", {"can_post_messages"})
    /\ req.loaded.permissions =
          FlagsToPermissions({"can_post_messages", "can_edit_messages"})
    /\ 1 \in DOMAIN configs
    /\ configs[1].can_post_messages
    /\ ~configs[1].can_edit_messages
    /\ "can_edit_messages" \in Range(configs[1].validation_error)
    /\ ~history[1].validation_result

\* C6, as the code has it: an attempt appends one record for its channel when
\* the commit of its try block or, that one failed, the commit of its except
\* block goes through, and none when both fail; it never appends two.
C6_AtMostOneRecordPerAttempt ==
    [][AttemptStep =>
          IF req'.committed = "none"
          THEN history' = history
          ELSE /\ Len(history') = Len(history) + 1
               /\ SubSeq(history', 1, Len(history)) = history
               /\ LastRecord(history').channel_config_id = req.loaded.id
    ]_vars

C6_Witness ==
    /\ req.pc = "done"
    /\ req.committed = "fallback"
    /\ Len(history) = 1
    /\ history[1].error_message = ValidationErrorText

\* C6, as stated: every attempt, a failed commit included, appends exactly
\* one record.
C6_ExactlyOneRecordPerAttempt ==
    [][AttemptStep => Len(history') = Len(history) + 1]_vars

\* C7: an attempt whose commit fails leaves the rows and the history as they
\* were, and returns a failure.
C7_FailedCommitLeavesNothing ==
    [][(AttemptStep /\ req'.committed # "unit") =>
          /\ configs' = configs
          /\ history' = history
          /\ ~req'.result.valid
    ]_vars

\* The position of the last record of a row in the history, 0 when it has none.
LastAttempt(hist, id) ==
    LET attempts == {i \in 1..Len(hist) : hist[i].channel_config_id = id}
    IN  IF attempts = {} THEN 0
        ELSE CHOOSE i \in attempts : \A j \in attempts : j <= i

\* C8: a row has is_validated = true only if its most recent validation
\* attempt found the bot an administrator with every required permission.
C8_ValidatedOnlyByLastAttempt ==
    \A a \in DOMAIN configs :
        configs[a].is_validated =>
            LET last == LastAttempt(history, configs[a].id)
            IN  /\ last # 0
                /\ history[last].validation_result
                /\ \A p \in Range(REQUIRED_PERMISSIONS) :
                      history[last].permissions_snapshot.permissions[p]

\* The accounts of the channels a sweep took.
Selected(l) == {l.channels[i].account_id : i \in 1..Len(l.channels)}

C10_EveryChannelGetsOneEntry ==
    /\ loop.pc \in {"credentials", "calling"} =>
          /\ loop.idx \in 1..Len(loop.channels)
          /\ Len(loop.results) = loop.idx - 1
    /\ loop.pc = "finished" => Len(loop.results) = Len(loop.channels)
    /\ \A i \in 1..Len(loop.results) :
          loop.results[i].account_id = loop.channels[i].account_id

\* The first channel failed, the second one was validated after it.
C10_Witness ==
    /\ loop.pc = "finished"
    /\ Len(loop.channels) = 2
    /\ ~loop.results[1].validation_result.valid
    /\ loop.results[2].validation_result.valid
    /\ configs[loop.channels[2].account_id].is_validated
    /\ configs[loop.channels[2].account_id].last_validation_at = now

\* The step in which the sweep appends the entry of a channel whose
\* credentials were not resolved: the lookup raised, or the credentials of
\* the environment stood in and the Validator ran with them.
CredentialFailureStep ==
    /\ Len(loop'.results) = Len(loop.results) + 1
    /\ \/ loop.pc = "credentials"
       \/ loop.pc = "calling" /\ loop.credentials = "fallback"

\* C11: when the credentials of a channel taken by a sweep cannot be
\* resolved, a FAILED attempt is recorded for it: a record with result false
\* is appended, is_validated is false, validation_error is set and
\* last_validation_at is the attempt time.
C11_CredentialFailureRecorded ==
    [][CredentialFailureStep =>
          LET channel == loop.channels[loop.idx]
              row == configs'[channel.account_id]
          IN  /\ Len(history') = Len(history) + 1
              /\ LastRecord(history').channel_config_id = channel.id
              /\ ~LastRecord(history').validation_result
              /\ ~row.is_validated
              /\ row.validation_error # NoText
              /\ row.last_validation_at = now
    ]_vars

\* C12: at most one instance of the periodic sweep executes at any time: a
\* sweep that is running is the only instance, and a firing of the timer
\* during it starts no second one, also after update_validation_interval
\* registered the job again while the sweep ran.
C12_OneSweepAtATime ==
    /\ sched.instances <= 1
    /\ (loop.mode = "periodic" /\ loop.pc # "idle") => sched.instances = 1

\* A sweep is under way, the interval was changed, and a firing of the timer
\* was refused.
C12_Witness ==
    /\ loop.mode = "periodic"
    /\ loop.pc \in {"credentials", "calling"}
    /\ sched.is_running
    /\ sched.validation_interval # PERIODIC_VALIDATION_INTERVAL
    /\ sched.skipped

\* C13: when a sweep and an on-demand validation of the same channel overlap
\* and both commit, the permissions, is_validated, last_validation_at and
\* validation_error of the row are those of the validation that committed
\* last, whose record is the last of the two the history gained.
C13_LastWriterWins ==
    (/\ loop.pc = "finished"
     /\ Len(loop.results) = 1
     /\ req.pc = "done"
     /\ Len(history) = 2
     /\ 1 \in DOMAIN configs)
    => LET last == LastRecord(history)
           row == configs[1]
       IN  /\ row.is_validated = last.validation_result
           /\ row.validation_error = last.error_message
           /\ row.last_validation_at = last.validated_at
           /\ last.permissions_snapshot.keys = "permissions"
                 => get_permissions_dict(row) = last.permissions_snapshot.permissions

\* The first run of the cleanup job since the scheduler was created.
CleanupStep == ~sched.cleanup_result.ran /\ sched'.cleanup_result.ran

\* The records of hist that are in the given set of positions, in order.
Kept(hist, positions) ==
    LET F[i \in 0..Len(hist)] ==
            IF i = 0 THEN << >>
            ELSE IF i \in positions THEN Append(F[i - 1], hist[i]) ELSE F[i - 1]
    IN  F[Len(hist)]

\* C14: a successful run of the cleanup job with days_to_keep = 30 deletes
\* exactly the records validated more than 30 days before the run and keeps
\* every other record, in their order (the record of 31 days ago goes, those
\* of 30 and 29 days ago stay), and reports the number of records deleted.
C14_DeletesExactlyTheOld ==
    [][(CleanupStep /\ sched'.cleanup_result.success) =>
          LET old == {i \in DOMAIN history : now - history[i].validated_at > 30 * 24}
          IN  /\ history' = Kept(history, DOMAIN history \ old)
              /\ sched'.cleanup_result.deleted_records = Cardinality(old)
    ]_vars

\* A run deleted the record of 31 days ago and kept those of 30 and 29 days ago.
C14_Witness ==
    /\ sched.cleanup_result.success
    /\ sched.cleanup_result.deleted_records = 1
    /\ Len(history) = 1
    /\ now - history[1].validated_at \in {29 * 24, 30 * 24}

\* C15: the history is append-only.  In every step the records it holds stay
\* as they are and in their order, new records coming after them; the only
\* step that removes records is a successful run of the cleanup job, and
\* the records it removes were validated more than 30 days before.  On-demand
\* validation, setup, update-permissions and the deletion of the channel
\* remove and alter none.
C15_HistoryAppendOnly ==
    [][\E removed \in SUBSET DOMAIN history :
          LET kept == Kept(history, DOMAIN history \ removed)
          IN  /\ Len(history') >= Len(kept)
              /\ SubSeq(history', 1, Len(kept)) = kept
              /\ \A i \in removed : now - history[i].validated_at > 30 * 24
              /\ removed # {} =>
                    /\ sched'.cleanup_result.success
                    /\ UNCHANGED <<configs, loop, req>>
    ]_vars

\* The channel was validated and then deleted after the cleanup had run: the
\* record of 29 days ago and the new one are in the history.
C15_Witness ==
    /\ 1 \notin DOMAIN configs
    /\ sched.cleanup_result.success
    /\ Len(history) = 2
    /\ now - history[1].validated_at = 29 * 24
    /\ history[2].validated_at = now
    /\ history[2].channel_config_id = 1

\* C16: a failed run of the cleanup job is contained.  It returns to the
\* scheduler with its failure logged, deletes no record, changes no
\* ChannelConfig, and leaves the scheduler and a sweep under way as they
\* were: whatever sweeps select and validate afterwards is what they would
\* without that run.
C16_CleanupFailureContained ==
    [][(CleanupStep /\ ~sched'.cleanup_result.success) =>
          /\ history' = history
          /\ configs' = configs
          /\ loop' = loop
          /\ sched' = [sched EXCEPT !.cleanup_result = sched'.cleanup_result]
          /\ get_channels_needing_validation(configs', now', MaxAgeHours)
                = get_channels_needing_validation(configs, now, MaxAgeHours)
    ]_vars

\* The cleanup failed, the record of 31 days ago is still there, and a sweep
\* validated the channel and got its record committed.
C16_Witness ==
    /\ sched.cleanup_result.ran
    /\ ~sched.cleanup_result.success
    /\ Len(history) = 2
    /\ now - history[1].validated_at = 31 * 24
    /\ history[2].validated_at = now
    /\ loop.mode = "periodic"
    /\ loop.pc = "finished"
    /\ Len(loop.results) = 1

\* C17: run_immediate_validation takes its channels whatever their
\* last_validation_at: with an account_id the channel of that account and no
\* other, without one every ChannelConfig; the Validator is then run on the
\* channels taken, and a row that was not taken is written by nothing.
C17_ImmediateIgnoresStaleness ==
    [][/\ (loop.pc = "idle" /\ loop'.mode = "immediate") =>
             Selected(loop') = IF loop'.account_id # 0
                               THEN {loop'.account_id} \cap DOMAIN configs
                               ELSE DOMAIN configs
       /\ loop.mode = "immediate" =>
             /\ \A a \in DOMAIN configs \ Selected(loop) :
                   a \in DOMAIN configs' /\ configs'[a] = configs[a]
             /\ Len(history') > Len(history) =>
                   LastRecord(history').channel_config_id = loop.channels[loop.idx].id
    ]_vars

\* run_immediate_validation(1) validated the channel of account 1, which had
\* been validated within the hour, and left the never validated channel of
\* account 2 alone.
C17_Witness ==
    /\ loop.pc = "finished"
    /\ loop.mode = "immediate"
    /\ loop.account_id = 1
    /\ Selected(loop) = {1}
    /\ loop.channels[1].permissions["can_post_messages"]
    /\ now <= MaxAgeHours
    /\ Len(history) = 1
    /\ LastRecord(history).channel_config_id = configs[1].id
    /\ configs[2].last_validation_at = NullTime

\* C18: the validation_type of a record is that of the context it was
\* appended in: "periodic" for a sweep the scheduler started,
\* "permission_check" for an on-demand validation.
C18_TypeIsCallerContext ==
    [][Len(history') = Len(history) + 1 =>
          /\ (loop.mode = "periodic" /\ loop.pc = "calling" /\ loop'.pc # "calling")
                => LastRecord(history').validation_type = "periodic"
          /\ AttemptStep => LastRecord(history').validation_type = "permission_check"
    ]_vars

\* The step in which a revalidation goes from the answer about the channel
\* to its return.
RefreshStep == req.pc = "refreshing" /\ req'.pc = "done"

\* C19: whatever becomes of the refresh of the descriptive columns in a
\* revalidation (the channel cannot be fetched, or the write fails), the
\* caller is answered with the outcome of the validation, and the refresh
\* changes nothing of the row but channel_title and channel_member_count
\* and nothing of the history.
C19_RefreshNeverChangesOutcome ==
    [][RefreshStep =>
          /\ req'.response.success
          /\ req'.response.valid = req.result.valid
          /\ history' = history
          /\ \A a \in DOMAIN configs :
                /\ a \in DOMAIN configs'
                /\ [configs'[a] EXCEPT !.channel_title = configs[a].channel_title,
                                       !.channel_member_count = configs[a].channel_member_count]
                      = configs[a]
    ]_vars

\* The validation in flight in the sweep comes to its end with a commit
\* that goes through.
LoopValidateCommitted ==
    /\ \E raw \in SweepMemberOutcomes : LoopValidate(raw, TRUE, TRUE)
    /\ Len(history') = Len(history) + 1

\* C20: stop_scheduler returns without waiting for a sweep in progress,
\* which it leaves where it is.  While the scheduler is stopped the timer
\* starts no sweep and no cleanup run; the validation of the channel a
\* sweep is at can still run to its end and commit.
C20_StopDoesNotWait ==
    /\ [][/\ (sched.is_running /\ ~sched'.is_running) =>
                UNCHANGED <<loop, configs, history>>
          /\ (~sched.is_running /\ ~sched'.is_running) =>
                /\ sched'.instances <= sched.instances
                /\ loop.pc = "idle" => loop'.pc = "idle"
                /\ sched'.cleanup_result = sched.cleanup_result
                /\ Len(history') >= Len(history)
         ]_vars
    /\ [](/\ ~sched.is_running
          /\ loop.pc = "calling"
          /\ Len(history) < MaxHistory
          /\ RowPresent(configs, loop.channels[loop.idx])
          => ENABLED LoopValidateCommitted)

\* The scheduler was stopped while a sweep it had started was waiting for the
\* answer of a member lookup.
C20_Witness ==
    /\ ~sched.is_running
    /\ loop.mode = "periodic"
    /\ loop.pc = "calling"
    /\ sched.instances = 1
    /\ Len(history) < MaxHistory

\* The step in which a setup request comes to its return.
SetupStep == req.pc \in {"idle", "setting_up"} /\ req'.pc = "done"

\* C21: an account never has a second ChannelConfig.  The row of an account
\* is never joined or replaced by another row in any step, and a setup for
\* an account that has a row, be it there from the start or inserted by
\* another setup or save while this one was calling the Gateway, returns
\* success false with an error and changes neither the rows nor the history.
C21_OneConfigPerAccount ==
    [][/\ \A a \in DOMAIN configs \cap DOMAIN configs' : configs'[a].id = configs[a].id
       /\ (SetupStep /\ req'.loaded.account_id \in DOMAIN configs) =>
             /\ ~req'.response.success
             /\ req'.result.error # NoText
             /\ UNCHANGED <<configs, history>>
    ]_vars

\* A setup that found no row was refused at its commit: another request had
\* inserted the row of the account meanwhile.
C21_Witness ==
    /\ req.pc = "done"
    /\ req.result.error = SetupError("IntegrityError")
    /\ ~req.response.success
    /\ 1 \in DOMAIN configs

\* The required permissions the answer of the member lookup does not grant.
Lacking(raw) == SelectSeq(REQUIRED_PERMISSIONS, LAMBDA p : p \notin raw.flags)

\* C22: a setup creates the ChannelConfig only when the channel fetch and
\* the member lookup succeeded, the bot is an administrator and holds every
\* required permission.  When one of these fails it returns success false
\* with the reason (the error of the Gateway as it came, that the bot is not
\* an administrator, or the list of the permissions it lacks) and inserts
\* neither a row nor a record.
C22_SetupOnlyWhenCompliant ==
    [][(req.pc = "setting_up" /\ req'.pc = "done") =>
          LET a == req.loaded.account_id
              raw == req'.raw
              fetched == req'.channel = "Ok"
              reason ==
                 IF ~fetched THEN get_channel_info(req'.channel).error
                 ELSE IF raw.kind # "Ok" THEN get_bot_member_info(raw).error
                 ELSE IF raw.status # "administrator"
                      THEN <<"Bot is not an administrator in the channel">>
                 ELSE <<"Bot lacks required permissions: ">> \o Lacking(raw)
          IN  /\ configs' # configs => fetched /\ Compliant(raw) /\ req'.response.success
              /\ req'.response.success =>
                    /\ a \notin DOMAIN configs
                    /\ a \in DOMAIN configs'
                    /\ configs'[a].is_validated
                    /\ Len(history') = Len(history) + 1
              /\ ~(fetched /\ Compliant(raw)) =>
                    /\ ~req'.response.success
                    /\ req'.result.error = reason
                    /\ UNCHANGED <<configs, history>>
    ]_vars

\* A setup was refused because the bot lacks a required permission; the
\* account has no row and the history no record.
C22_Witness ==
    /\ req.pc = "done"
    /\ req.channel = "Ok"
    /\ req.raw.status = "administrator"
    /\ req.result.error = <<"Bot lacks required permissions: ", "can_edit_messages">>
    /\ ~req.response.success
    /\ configs = << >>
    /\ history = << >>

\* C23: get_channel_info and get_bot_member_info never raise.  Whatever the
\* remote side answers (a timeout, a network error, a status that is not OK,
\* a body that cannot be parsed or is not of the expected shape, a body
\* without ok, an absent argument) they return success false with an error,
\* and they return success true, with the data of the answer, exactly when
\* the answer has ok.
C23_GatewayNeverRaises ==
    call.op \in {"get_channel_info", "get_bot_member_info"} =>
       LET kind == IF call.op = "get_channel_info" THEN call.input ELSE call.input.kind
       IN  /\ ~call.raised
           /\ call.output.success <=> kind = "Ok"
           /\ ~call.output.success => call.output.error # NoText
           /\ call.output.success => call.output.error = NoText
           /\ (call.op = "get_bot_member_info" /\ call.output.success) =>
                 /\ call.output.member_info.status = call.input.status
                 /\ \A p \in PermissionNames :
                       call.output.member_info.permissions[p] <=> p \in call.input.flags

\* The body had ok and no result: the member lookup returned the failure.
C23_Witness ==
    /\ call.op = "get_bot_member_info"
    /\ call.input.kind = "NoResult"
    /\ ~call.raised
    /\ ~call.output.success
    /\ call.output.error = <<"Unexpected error: ", "KeyError">>

\* The permission is true in the dict.
Granted(permissions, p) == p \in DOMAIN permissions /\ permissions[p]

RequiredSet == Range(REQUIRED_PERMISSIONS)

\* C24: check_required_permissions(P) has has_required_permissions true
\* exactly when every required permission is true in P, lists in
\* missing_permissions exactly the required permissions not true in P, each
\* once, and gives the same for P with a permission outside the required set
\* changed.
C24_RequiredCheck ==
    call.op = "check_required_permissions" =>
       LET P == call.input
           missing == {r \in RequiredSet : ~Granted(P, r)}
       IN  /\ call.output.has_required_permissions <=> \A r \in RequiredSet : Granted(P, r)
           /\ Range(call.output.missing_permissions) = missing
           /\ Len(call.output.missing_permissions) = Cardinality(missing)
           /\ \A q \in DOMAIN P \ RequiredSet :
                 LET other == check_required_permissions([P EXCEPT ![q] = ~@])
                 IN  /\ other.has_required_permissions = call.output.has_required_permissions
                     /\ other.missing_permissions = call.output.missing_permissions

\* A dict with one required permission and an optional one granted, the
\* other required permission absent: it is reported missing.
C24_Witness ==
    /\ call.op = "check_required_permissions"
    /\ Granted(call.input, "can_post_messages")
    /\ Granted(call.input, "can_pin_messages")
    /\ "can_edit_messages" \notin DOMAIN call.input
    /\ ~call.output.has_required_permissions
    /\ call.output.missing_permissions = <<"can_edit_messages">>

\* C25: compare_permissions(old, new) gives as gained the permissions not
\* true in old and true in new, as lost those true in old and not true in
\* new, has_changes exactly when one of the two is not empty, and as
\* lost_required the lost permissions that are required.
C25_CompareIsTheDifference ==
    call.op = "compare_permissions" =>
       LET old == call.input.old
           new == call.input.new
           gained == {p \in PermissionNames : ~Granted(old, p) /\ Granted(new, p)}
           lost == {p \in PermissionNames : Granted(old, p) /\ ~Granted(new, p)}
       IN  /\ call.output.gained_permissions = gained
           /\ call.output.lost_permissions = lost
           /\ call.output.has_changes <=> (gained \cup lost) # {}
           /\ call.output.lost_required_permissions = lost \cap RequiredSet

\* A comparison in which a permission was gained and a required and an
\* optional permission were lost.
C25_Witness ==
    /\ call.op = "compare_permissions"
    /\ call.output.gained_permissions # {}
    /\ call.output.lost_permissions = {"can_edit_messages", "can_pin_messages"}
    /\ call.output.lost_required_permissions = {"can_edit_messages"}
    /\ call.output.has_changes

\* C26: when compare_permissions(old, new) reports a lost required
\* permission, check_required_permissions(new) reports that the required
\* permissions are not all there.
C26_LostRequiredMeansNotCompliant ==
    (call.op = "compare_permissions" /\ call.output.lost_required_permissions # {}) =>
       /\ ~check_required_permissions(call.input.new).has_required_permissions
       /\ call.output.lost_required_permissions
             \subseteq Range(check_required_permissions(call.input.new).missing_permissions)

\* A comparison that reports the loss of can_post_messages.
C26_Witness ==
    /\ call.op = "compare_permissions"
    /\ call.output.lost_required_permissions = {"can_post_messages"}
    /\ Granted(call.input.new, "can_edit_messages")
    /\ ~check_required_permissions(call.input.new).has_required_permissions

\* C27: compare_permissions(X, X) reports no change: has_changes is false
\* and gained, lost and lost_required are empty.
C27_CompareWithItself ==
    (call.op = "compare_permissions" /\ call.input.old = call.input.new) =>
       /\ ~call.output.has_changes
       /\ DOMAIN call.output.changes = {}
       /\ call.output.gained_permissions = {}
       /\ call.output.lost_permissions = {}
       /\ call.output.lost_required_permissions = {}
       /\ ~call.output.critical_loss

\* A dict that grants some permissions and denies others was compared with itself.
C27_Witness ==
    /\ call.op = "compare_permissions"
    /\ call.input.old = call.input.new
    /\ \E p, q \in DOMAIN call.input.old : call.input.old[p] /\ ~call.input.old[q]
    /\ ~call.output.has_changes

\* C28: validate_permission_update(channel_config, proposed) has valid true
\* exactly when every required permission is true in proposed, whatever
\* the ChannelConfig holds; it carries an error, naming the missing
\* permissions, exactly when valid is false, and leaves the ChannelConfig
\* as it was.
C28_UpdateValidityMirrorsCheck ==
    call.op = "validate_permission_update" =>
       LET proposed == call.input.new
           requirement_check == check_required_permissions(proposed)
       IN  /\ call.output.valid <=> \A r \in RequiredSet : Granted(proposed, r)
           /\ call.output.valid = requirement_check.has_required_permissions
           /\ call.output.error # NoText <=> ~call.output.valid
           /\ ~call.output.valid =>
                 call.output.error = <<"Missing required permissions: ">>
                                        \o requirement_check.missing_permissions
           /\ call.output.channel_config = call.input.channel_config

\* A proposal with every required permission was found valid for a
\* ChannelConfig that holds none of them.
C28_Witness ==
    /\ call.op = "validate_permission_update"
    /\ ~call.input.channel_config.can_post_messages
    /\ ~call.input.channel_config.can_edit_messages
    /\ call.output.valid
    /\ call.output.error = NoText

\* C29: validate_permission_update carries a warning exactly when a required
\* permission true in the ChannelConfig is not true in the proposal.
C29_WarningIffLostRequired ==
    call.op = "validate_permission_update" =>
       LET stored == get_permissions_dict(call.input.channel_config)
           lost_required == {r \in RequiredSet :
                                Granted(stored, r) /\ ~Granted(call.input.new, r)}
       IN  /\ call.output.warning # NoText <=> lost_required # {}
           /\ lost_required # {} =>
                 call.output.warning = <<"Critical permissions lost: ", lost_required>>

\* A proposal that drops can_edit_messages got the warning.
C29_Witness ==
    /\ call.op = "validate_permission_update"
    /\ call.input.channel_config.can_edit_messages
    /\ call.output.warning = <<"Critical permissions lost: ", {"can_edit_messages"}>>
    /\ ~call.output.valid

UpdateStep == call.op = "" /\ call'.op = "update_permissions"

\* C30: an update-permissions request answered with success, for an account
\* that has a ChannelConfig, leaves each permission flag its body names at
\* the value of the body and every flag it does not name at the value
\* stored; when the body carries a validation_error the row has
\* is_validated false and that validation_error; the rows of other accounts
\* stay.  A request for an account without a ChannelConfig is answered with
\* success false, and a request answered with success false (no row, an
\* empty permissions object, a failed commit) changes no row.
C30_UpdateOverwritesNamedFlags ==
    [][UpdateStep =>
         LET a == call'.input.account_id
             data == call'.input.data
             out == call'.output
         IN  /\ out.success =>
                   /\ a \in DOMAIN configs /\ DOMAIN configs' = DOMAIN configs
                   /\ \A p \in PermissionNames :
                         configs'[a][p] = IF p \in DOMAIN data.permissions
                                          THEN data.permissions[p]
                                          ELSE configs[a][p]
                   /\ data.validation_error # NoText =>
                         /\ ~configs'[a].is_validated
                         /\ configs'[a].validation_error = data.validation_error
                   /\ out.updated_permissions = get_permissions_dict(configs'[a])
                   /\ \A b \in DOMAIN configs \ {a} : configs'[b] = configs[b]
             /\ a \notin DOMAIN configs => ~out.success /\ out.status \in {400, 404}
             /\ (a \in DOMAIN configs /\ ~out.success) =>
                   \/ out.status = 400 /\ DOMAIN data.permissions = {}
                   \/ out.status = 500
             /\ ~out.success => configs' = configs
             /\ history' = history
    ]_vars

\* A request that named can_post_messages false and is_validated true with a
\* validation_error, for a validated row that held every flag: the flag it
\* named is off, the ones it did not name are on, the row is not validated.
C30_Witness ==
    /\ call.op = "update_permissions"
    /\ call.output.success
    /\ call.input.account_id = 1
    /\ DOMAIN configs = SweepAccounts
    /\ call.input.data = UpdateData(("can_post_messages" :> FALSE) @@ ("is_validated" :> TRUE),
                                    <<"Permission denied for posting messages">>)
    /\ ~configs[1].can_post_messages
    /\ configs[1].can_edit_messages
    /\ configs[1].can_pin_messages
    /\ ~configs[1].is_validated
    /\ configs[1].validation_error = <<"Permission denied for posting messages">>

\* C31: an attempt that fails before the permissions are taken from the
\* answer of the member lookup (the lookup failed in any way, or the status
\* it gave is not administrator) leaves the five permission flags of every
\* row as they were, whatever flags the answer carried and whatever became
\* of the commits.
C31_FailureKeepsSnapshot ==
    [][(AttemptStep /\ (req'.raw.kind # "Ok" \/ req'.raw.status # "administrator")) =>
          /\ ~req'.result.valid
          /\ DOMAIN configs' = DOMAIN configs
          /\ \A a \in DOMAIN configs :
                \A p \in PermissionNames : configs'[a][p] = configs[a][p]
    ]_vars

\* The bot has left the channel: the answer carries no flag, the failure is
\* stored, and the row still holds the five flags it held.
C31_Witness ==
    /\ req.pc = "done"
    /\ req.committed = "unit"
    /\ req.raw = Raw("Ok", "left", {})
    /\ 1 \in DOMAIN configs
    /\ \A p \in PermissionNames : configs[1][p]
    /\ ~configs[1].is_validated
    /\ configs[1].validation_error = NoLongerAdministrator

\* The channel of the account is due for the periodic sweep.
Due(a) == a \in get_channels_needing_validation(configs, now, MaxAgeHours)

\* An attempt on the channel of the account was stored at this hour.
ValidatedNow(a) ==
    /\ a \in DOMAIN configs
    /\ configs[a].last_validation_at = now
    /\ \E i \in DOMAIN history :
          /\ history[i].channel_config_id = configs[a].id
          /\ history[i].validated_at = now

\* C32: while the scheduler runs and every call of the credentials function
\* and of the Gateway returns, a channel that is due (last_validation_at
\* null or older than the hour) is eventually validated by a periodic
\* sweep: a record is appended for it and its last_validation_at is set.
C32_DueEventuallyValidated ==
    \A a \in SweepAccounts : Due(a) ~> ValidatedNow(a)

\* How many jobs are registered under the id.
Registered(jobs, id) == Cardinality({i \in DOMAIN jobs : jobs[i] = id})

C34_UpdateTouchesOnlyFlags ==
    [][(UpdateStep /\ call'.output.success) =>
          LET a == call'.input.account_id
              data == call'.input.data
          IN  /\ configs'[a].id = configs[a].id
              /\ configs'[a].last_validation_at = configs[a].last_validation_at
              /\ configs'[a].channel_title = configs[a].channel_title
              /\ configs'[a].channel_member_count = configs[a].channel_member_count
              /\ data.validation_error = NoText =>
                    /\ configs'[a].is_validated = configs[a].is_validated
                    /\ configs'[a].validation_error = configs[a].validation_error
    ]_vars

\* C35: in every reachable state, a ChannelConfig with is_validated = true
\* holds every required permission in its stored permission flags.
C35_ValidatedHoldsRequired ==
    \A a \in DOMAIN configs :
        configs[a].is_validated =>
           \A r \in Range(REQUIRED_PERMISSIONS) : configs[a][r]

\* C36: the persisted last_validation_at of a ChannelConfig never
\* decreases, whatever the interleaving of sweeps, validations on demand and
\* saves on the channel.
C36_LastValidatedNeverDecreases ==
    [][\A a \in DOMAIN configs \cap DOMAIN configs' :
          configs'[a].id = configs[a].id =>
             configs'[a].last_validation_at >= configs[a].last_validation_at
    ]_vars

RequestCommitStep == req.pc = "stamped" /\ req'.pc = "done"

\* C36, as the code has it: the writer that commits last wins.  The commit
\* of a validation on demand leaves in last_validation_at the time at which
\* the attempt assigned it, before its commit (the time of the except block
\* when that one commits, nothing when no commit goes through); every other
\* step leaves the value or sets it to the current time; the value is never
\* later than the current time, and it goes back only by the commit of an
\* attempt that assigned its time before the value stored was written.
C36_LastCommitWins ==
    /\ [](\A a \in DOMAIN configs : configs[a].last_validation_at <= now)
    /\ [][\A a \in DOMAIN configs \cap DOMAIN configs' :
             configs'[a].id = configs[a].id =>
                LET old == configs[a].last_validation_at
                    new == configs'[a].last_validation_at
                IN  /\ (RequestCommitStep /\ req.loaded.id = configs[a].id) =>
                          new = CASE req'.committed = "unit" -> req.stamped_at
                                  [] req'.committed = "fallback" -> now
                                  [] OTHER -> old
                    /\ ~RequestCommitStep => new \in {old, now}
                    /\ new < old =>
                          /\ RequestCommitStep
                          /\ req'.committed = "unit"
                          /\ req.stamped_at < old
          ]_vars

\* A sweep validated the channel and stored its record after the validation
\* on demand had assigned its time and before it committed: the row holds
\* the earlier time, the history a record of a later one.
C36_Witness ==
    /\ req.pc = "done"
    /\ req.committed = "unit"
    /\ 1 \in DOMAIN configs
    /\ configs[1].last_validation_at = req.stamped_at
    /\ Len(history) = 2
    /\ history[1].channel_config_id = configs[1].id
    /\ history[1].validated_at > configs[1].last_validation_at

\* The records of the history that refer to the row of an id.
RecordsOf(hist, id) == {i \in 1..Len(hist) : hist[i].channel_config_id = id}

====
